---- MODULE Spec2Model ----
(***************************************************************************)
(* Trail Explorer: the session facade (LlmMcpConnector), the MCP client    *)
(* it owns (TrailMcpClient) and the conversation orchestrator              *)
(* (LlmMcpConnector.process_query), as a state machine driven by one       *)
(* sequential caller (the CLI awaits every operation before the next).     *)
(*                                                                         *)
(* Text is modelled as a sequence of tokens (string literals and the       *)
(* substituted values), so that formatting and joining are computed and    *)
(* not assumed.                                                            *)
(*                                                                         *)
(* The tool server (trail_mcp_server.py) runs in a process of its own; its *)
(* tools, the query builder, the backend call and the formatter are the    *)
(* second state machine of this module (ServerSpec), which serves one tool *)
(* invocation at a time against a backend that may answer anything.        *)
(***************************************************************************)
EXTENDS Integers, Sequences, FiniteSets, TLC

VARIABLES
    _instance,            \* LlmMcpConnector._instance: 0 (None) or an object id
    objs,                 \* the LlmMcpConnector object created last (the one a caller holds), by id
    connects,             \* environment: how often a server connection was attempted
    listings,             \* environment: how often the three manifest listings were completed
    lastOp,               \* what the caller's last completed operation was and gave
    pc,                   \* position of the process_query call in flight
    self,                 \* process_query: the object it runs on
    via,                  \* process_query: called directly or through process_user_query
    query,                \* process_query: its argument
    conversation_history, \* process_query local
    final_response,       \* process_query local
    text_chunks,          \* process_query local (per round)
    tool_calls,           \* process_query local (per round)
    idx,                  \* process_query: position of the for loop in tool_calls
    served,               \* observation: the queries process_query has started on the newest object
    engineCalls,          \* environment: the engine calls made for this query
    engineLog,            \* environment: the responses the reasoning engine emitted for this query
    sentHistory,          \* environment: the messages the engine received in its last call
    sentTools,            \* environment: the tools the engine received in its last call
    gwTrace,              \* environment: start/end events of the gateway calls of this query
    request,              \* server: the tool invocation being served (name and arguments)
    spc,                  \* server: position of the tool function being run
    strategy,             \* server: search_trails_by_area_name, index of the strategy being tried
    issued,               \* environment: the backend queries of this invocation and what they gave
    output,               \* server: what the tool function returned
    trailClient,          \* a TrailMcpClient used on its own
    transport,            \* environment: the session and pipes of that client: none, open or closed
    cli,                  \* chat_app: where main() is, TrailExplorerChat.running, what was closed
    tasks,                \* concurrent callers: where the coroutine of each is, and its locals
    taskLog               \* environment: what the engine and the tools gave to each caller

facadeVars == <<_instance, objs, connects, listings, served>>
queryVars == <<pc, self, via, query, conversation_history, final_response,
               text_chunks, tool_calls, idx, engineCalls, engineLog, sentHistory,
               sentTools, gwTrace>>
serverVars == <<request, spc, strategy, issued, output>>
callerVars == <<trailClient, transport, cli, tasks, taskLog>>
clientVars == <<_instance, objs, connects, listings, served, lastOp, pc, self, via, query,
                conversation_history, final_response, text_chunks, tool_calls, idx,
                engineCalls, engineLog, sentHistory, sentTools, gwTrace,
                trailClient, transport, cli, tasks, taskLog>>
vars == <<_instance, objs, connects, listings, served, lastOp, pc, self, via, query,
          conversation_history, final_response, text_chunks, tool_calls, idx,
          engineCalls, engineLog, sentHistory, sentTools, gwTrace,
          request, spc, strategy, issued, output,
          trailClient, transport, cli, tasks, taskLog>>

----------------------------------------------------------------------------
(* Bounds of the model *)

MaxInstances == 2       \* LlmMcpConnector objects created in one run
MaxRounds == 2          \* engine calls per query explored
MaxTaskRounds == 2      \* engine calls per query of each of two overlapping callers
MaxConnects == 3        \* calls of connect() on a client used on its own

(* Inputs *)

Queries == {"q1", "q2"}
Uris == {"trails://types"}
PromptNames == {"compare_trail_areas"}

\* What the server answers to the three listings.
ServerTools ==
    << [name |-> "search_trails_by_coordinates", description |-> "d_coords", inputSchema |-> "s_coords"],
       [name |-> "search_trails_by_area_name", description |-> "d_area", inputSchema |-> "s_area"],
       [name |-> "get_trail_statistics", description |-> "d_stats", inputSchema |-> "s_stats"] >>

ServerResources ==
    << [uri |-> "trails://types", name |-> "get_trail_types", description |-> "d_types", mimeType |-> "text/plain"] >>

ServerPrompts ==
    << [name |-> "compare_trail_areas", description |-> "d_compare", arguments |-> <<"area1", "area2">>] >>

\* How an attempt to connect can end: at which await of TrailMcpClient.connect
\* (or of _fetch_capabilities) an exception is raised, if at any.
ConnectOutcomes == {"ok", "spawn_fail", "init_fail", "tools_fail", "resources_fail", "prompts_fail"}

\* How AsyncExitStack.aclose() can end.
CloseOutcomes == {"ok", "raise"}

----------------------------------------------------------------------------
(* Text *)

RECURSIVE JoinWith(_, _)
\* sep.join(parts): the parts with sep between neighbours; "" for no parts.
JoinWith(sep, parts) ==
    IF parts = <<>> THEN <<>>
    ELSE IF Len(parts) = 1 THEN parts[1]
    ELSE parts[1] \o sep \o JoinWith(sep, Tail(parts))

Contains(text, token) == \E i \in 1..Len(text) : text[i] = token

NotConnectedMsg == "Not connected to MCP server"

----------------------------------------------------------------------------
(* TrailMcpClient *)

\* TrailMcpClient.__init__
NewClient == [session |-> FALSE, capabilities |-> [loaded |-> FALSE]]

\* A _fetch_capabilities that stores each listing as soon as it has it.
FetchCapabilitiesPiecewise(client, o) ==
    LET none == [loaded |-> TRUE, tools |-> <<>>, resources |-> <<>>, prompts |-> <<>>]
        t == [none EXCEPT !.tools = ServerTools]
        tr == [t EXCEPT !.resources = ServerResources]
        trp == [tr EXCEPT !.prompts = ServerPrompts]
    IN CASE o = "tools_fail" -> [client |-> client, raised |-> TRUE]
         [] o = "resources_fail" -> [client |-> [client EXCEPT !.capabilities = t], raised |-> TRUE]
         [] o = "prompts_fail" -> [client |-> [client EXCEPT !.capabilities = tr], raised |-> TRUE]
         [] OTHER -> [client |-> [client EXCEPT !.capabilities = trp], raised |-> FALSE]

\* TrailMcpClient._fetch_capabilities: the three listings, then one assignment.
FetchCapabilities(client, o) ==
    IF o \in {"tools_fail", "resources_fail", "prompts_fail"}
    THEN [client |-> client, raised |-> TRUE]
    ELSE [client |-> [client EXCEPT !.capabilities =
                         [loaded |-> TRUE, tools |-> ServerTools,
                          resources |-> ServerResources, prompts |-> ServerPrompts]],
          raised |-> FALSE]

\* TrailMcpClient.connect: the session is assigned before it is initialised and
\* before the capabilities are fetched; any exception is re-raised.
ClientConnect(client, o) ==
    IF o = "spawn_fail" THEN [client |-> client, raised |-> TRUE]
    ELSE LET c1 == [client EXCEPT !.session = TRUE]
         IN IF o = "init_fail" THEN [client |-> c1, raised |-> TRUE]
            ELSE FetchCapabilities(c1, o)

\* TrailMcpClient.list_tools / list_resources / list_prompts on a client whose
\* capabilities are loaded (the only way LlmMcpConnector.connect reaches them).
ClientListTools(client) == client.capabilities.tools
ClientListResources(client) == client.capabilities.resources
ClientListPrompts(client) == client.capabilities.prompts

----------------------------------------------------------------------------
(* LlmMcpConnector: construction, connect, disconnect *)

\* LlmMcpConnector.__init__
NewConnector ==
    [mcp_client |-> NewClient, available_tools |-> <<>>, available_resources |-> <<>>,
     available_prompts |-> <<>>, is_connected |-> FALSE]

ToolDict(tool) ==
    [name |-> tool.name, description |-> tool.description, input_schema |-> tool.inputSchema]

ResourceDict(r) ==
    [uri |-> r.uri, name |-> r.name, description |-> r.description, mime_type |-> r.mimeType]

PromptDict(p) ==
    [name |-> p.name, description |-> p.description, arguments |-> p.arguments]

\* LlmMcpConnector.connect: every exception is swallowed (the method returns False).
Connect(obj, o) ==
    LET r == ClientConnect(obj.mcp_client, o)
    IN IF r.raised
       THEN [obj EXCEPT !.mcp_client = r.client]
       ELSE [obj EXCEPT
               !.mcp_client = r.client,
               !.is_connected = TRUE,
               !.available_tools =
                   [i \in 1..Len(ClientListTools(r.client)) |-> ToolDict(ClientListTools(r.client)[i])],
               !.available_resources =
                   [i \in 1..Len(ClientListResources(r.client)) |-> ResourceDict(ClientListResources(r.client)[i])],
               !.available_prompts =
                   [i \in 1..Len(ClientListPrompts(r.client)) |-> PromptDict(ClientListPrompts(r.client)[i])]]

Created == DOMAIN objs

\* Objects are numbered in the order of their creation; 0 when there is none yet.
LastId == IF Created = {} THEN 0 ELSE CHOOSE i \in Created : \A j \in Created : j <= i

\* A get_connector that connects again whenever it is called.
GetConnectorAlwaysConnects(o) ==
    IF _instance = 0
    THEN [inst |-> LastId + 1,
          objs |-> (LastId + 1) :> Connect(NewConnector, o),
          connects |-> connects + 1,
          listings |-> IF o = "ok" THEN listings + 1 ELSE listings,
          created |-> TRUE]
    ELSE [inst |-> _instance,
          objs |-> [objs EXCEPT ![_instance] = Connect(@, o)],
          connects |-> connects + 1,
          listings |-> IF o = "ok" THEN listings + 1 ELSE listings,
          created |-> FALSE]

\* LlmMcpConnector.get_connector as a function of the state: the slot, the
\* objects and the environment counters after the call, and the object returned.
GetConnectorResult(o) ==
    IF _instance = 0
    THEN LET id == LastId + 1
         IN [inst |-> id,
             objs |-> id :> Connect(NewConnector, o),
             connects |-> connects + 1,
             listings |-> IF o = "ok" THEN listings + 1 ELSE listings,
             created |-> TRUE]
    ELSE [inst |-> _instance, objs |-> objs, connects |-> connects, listings |-> listings,
          created |-> FALSE]

CanGetConnector == _instance # 0 \/ LastId < MaxInstances

ApplyGetConnector(g) ==
    /\ _instance' = g.inst
    /\ objs' = g.objs
    /\ connects' = g.connects
    /\ listings' = g.listings
    /\ served' = IF g.created THEN {} ELSE served

\* The caller awaits every operation: it starts one only when none is running.
NoCallInFlight == pc = "idle"

\* The locals of process_query, and what the environment recorded for the
\* call, when no call is running.
DropFrame ==
    /\ pc' = "idle"
    /\ self' = 0
    /\ via' = "none"
    /\ query' = "none"
    /\ conversation_history' = <<>>
    /\ final_response' = <<>>
    /\ text_chunks' = <<>>
    /\ tool_calls' = <<>>
    /\ idx' = 0
    /\ engineCalls' = 0
    /\ engineLog' = <<>>
    /\ sentHistory' = <<>>
    /\ sentTools' = <<>>
    /\ gwTrace' = <<>>

Returned(op, inst, value) == [op |-> op, inst |-> inst, outcome |-> "return", value |-> value]
Raised(op, inst, error) == [op |-> op, inst |-> inst, outcome |-> "raise", error |-> error]

\* LlmMcpConnector.get_connector
get_connector(o) ==
    /\ UNCHANGED <<serverVars, callerVars>>
    /\ NoCallInFlight
    /\ CanGetConnector
    /\ LET g == GetConnectorResult(o)
       IN /\ ApplyGetConnector(g)
          /\ lastOp' = [op |-> "get_connector", inst |-> g.inst, outcome |-> "return",
                         value |-> g.inst, created |-> g.created,
                         attempt |-> IF g.created THEN o ELSE "none"]
    /\ UNCHANGED queryVars

\* LlmMcpConnector.cleanup with LlmMcpConnector.disconnect and
\* TrailMcpClient.disconnect inlined: an exception of aclose() leaves through
\* all three, before is_connected and _instance are assigned.
cleanup(o) ==
    /\ UNCHANGED <<serverVars, callerVars>>
    /\ NoCallInFlight
    /\ IF _instance = 0
       THEN /\ UNCHANGED <<_instance, objs>>
            /\ lastOp' = Returned("cleanup", 0, "None")
       ELSE LET obj == objs[_instance]
            IN IF obj.is_connected /\ obj.mcp_client.session /\ o = "raise"
               THEN /\ UNCHANGED <<_instance, objs>>
                    /\ lastOp' = Raised("cleanup", _instance, "aclose failed")
               ELSE /\ objs' = [objs EXCEPT ![_instance].is_connected = FALSE]
                    /\ _instance' = 0
                    /\ lastOp' = Returned("cleanup", _instance, "None")
    /\ UNCHANGED <<connects, listings, served>>
    /\ UNCHANGED queryVars

----------------------------------------------------------------------------
(* The reasoning engine and the tool gateway (environment) *)

TextBlock(t) == [type |-> "text", text |-> <<t>>]
ToolUseShape(n) == [type |-> "tool_use", name |-> n, input |-> "args"]

\* The responses the engine may emit, before it stamps the tool-use ids:
\* no content, text only, a tool request, two tool requests around a text
\* (the first of them for a name that is not a tool of the server).
EngineShapes ==
    { <<>>,
      <<TextBlock("a")>>,
      <<TextBlock("a"), TextBlock("b")>>,
      <<ToolUseShape("search_trails_by_area_name")>>,
      <<ToolUseShape("get_trail_types"), TextBlock("b"),
        ToolUseShape("search_trails_by_area_name")>> }

\* The engine gives every tool request an id of its own: (round, position).
Stamp(shape, round) ==
    [i \in 1..Len(shape) |->
        IF shape[i].type = "tool_use"
        THEN [type |-> "tool_use", name |-> shape[i].name, input |-> shape[i].input,
              id |-> <<round, i>>]
        ELSE shape[i]]

EngineErrors == {"e_engine"}

\* What the remote tool call can give: a content list, or an exception.
ToolContents == { <<>>, <<[type |-> "text", text |-> <<"r1">>]>> }
ToolErrors == {"e_tool"}

----------------------------------------------------------------------------
(* TrailMcpClient.call_tool *)

NoContentMsg == <<"No content returned from tool">>

\* A call_tool that joins the text items whether there are any or not.
ExtractToolTextNoSentinel(content) ==
    JoinWith(<<"\n">>,
        [i \in 1..Len(SelectSeq(content, LAMBDA c : c.type = "text")) |->
            SelectSeq(content, LAMBDA c : c.type = "text")[i].text])

\* The text of a tool result: its text items joined by newlines, or the
\* sentinel when the result has no content.
ExtractToolText(content) ==
    IF content # <<>>
    THEN JoinWith(<<"\n">>,
            [i \in 1..Len(SelectSeq(content, LAMBDA c : c.type = "text")) |->
                SelectSeq(content, LAMBDA c : c.type = "text")[i].text])
    ELSE NoContentMsg

----------------------------------------------------------------------------
(* LlmMcpConnector.process_query *)

FormatToolsForPrompt(obj) ==
    IF obj.available_tools = <<>> THEN <<"No tools available">>
    ELSE JoinWith(<<"\n">>,
            [i \in 1..Len(obj.available_tools) |->
                <<"* ", obj.available_tools[i].name, ": ", obj.available_tools[i].description,
                  "\n  Input: ", obj.available_tools[i].input_schema>>])

FormatResourcesForPrompt(obj) ==
    IF obj.available_resources = <<>> THEN <<"No resources available">>
    ELSE JoinWith(<<"\n">>,
            [i \in 1..Len(obj.available_resources) |->
                <<"* ", obj.available_resources[i].uri, ": ", obj.available_resources[i].description>>])

FormatPromptsForPrompt(obj) ==
    IF obj.available_prompts = <<>> THEN <<"No prompts available">>
    ELSE JoinWith(<<"\n">>,
            [i \in 1..Len(obj.available_prompts) |->
                <<"* ", obj.available_prompts[i].name, ": ", obj.available_prompts[i].description>>])

CreateSystemPrompt(obj) ==
    <<"You are a helpful assistant ... 1. TOOLS: ">> \o FormatToolsForPrompt(obj)
    \o <<" 2. RESOURCES: ">> \o FormatResourcesForPrompt(obj)
    \o <<" 3. PROMPTS: ">> \o FormatPromptsForPrompt(obj)
    \o <<" When a user asks about trails ... Plain text only.">>

\* The one message process_query starts from.
SeedTurn(obj, q) ==
    [role |-> "user", content |-> [str |-> CreateSystemPrompt(obj) \o <<"\n\nUser Query: ", q>>]]

\* An assistant turn that keeps the text of the response and leaves out its
\* tool requests.
AssistantTurnTextOnly(content) ==
    [role |-> "assistant",
     content |-> [blocks |-> SelectSeq(content, LAMBDA c : c.type = "text")]]

AssistantTurn(content) == [role |-> "assistant", content |-> [blocks |-> content]]

ToolResultTurn(id, text) ==
    [role |-> "user",
     content |-> [blocks |-> <<[type |-> "tool_result", tool_use_id |-> id, content |-> text]>>]]

\* The tool requests of a response, last first.
ToolCallsReversed(content) ==
    LET calls == SelectSeq(content, LAMBDA c : c.type = "tool_use")
    IN [i \in 1..Len(calls) |-> calls[Len(calls) + 1 - i]]

\* The two lists process_query splits a response into.
ToolCallsOf(content) == SelectSeq(content, LAMBDA c : c.type = "tool_use")

TextChunksOf(content) ==
    [i \in 1..Len(SelectSeq(content, LAMBDA c : c.type = "text")) |->
        SelectSeq(content, LAMBDA c : c.type = "text")[i].text]

\* error_msg of the except branch, and the chunk appended to text_chunks.
ErrorMsg(tool_name, e) == <<"Error calling tool ", tool_name, ": ", e>>
ErrorChunk(tool_name, e) == <<"\n">> \o ErrorMsg(tool_name, e)

\* A final_response that also takes the text of rounds that requested tools.
FinalKeepsEveryRound(final, chunks) == final \o chunks

\* final_response after a round that requested tools (continue) and after one
\* that did not (extend, break).
FinalAfterToolRound(final, chunks) == final
FinalAfterTextRound(final, chunks) == final \o chunks

ReturnValue(final) == JoinWith(<<"\n">>, final)

SorryMsg(e) == <<"Sorry, I encountered an error while processing your query: ", e>>

\* How the end of process_query reaches the caller: directly, or through
\* process_user_query, which turns every exception into a string.
Deliver(outcome, payload) ==
    IF via = "direct"
    THEN IF outcome = "return" THEN Returned("process_query", self, payload)
         ELSE Raised("process_query", self, payload)
    ELSE Returned("process_user_query", self,
                  IF outcome = "return" THEN payload ELSE SorryMsg(payload))

Pending(op, inst) == [op |-> op, inst |-> inst, outcome |-> "pending"]

\* A history kept on the object across calls: the seeds of the queries
\* processed before come first.
InitialHistoryKept(obj, q) ==
    LET RECURSIVE Seeds(_)
        Seeds(qs) == IF qs = {} THEN <<>>
                     ELSE LET x == CHOOSE y \in qs : TRUE
                          IN <<SeedTurn(obj, x)>> \o Seeds(qs \ {x})
    IN Seeds(served \ {q}) \o <<SeedTurn(obj, q)>>

\* messages, and the copy of it the loop starts from.
InitialHistory(obj, q) == <<SeedTurn(obj, q)>>

\* Entry of process_query on object c: the connection check and the locals.
\* srv is the set of queries started on c before this one.
EnterProcessQuery(c, obj, v, q, srv) ==
    IF ~obj.is_connected
    THEN /\ UNCHANGED queryVars
         /\ served' = srv
         /\ lastOp' = IF v = "direct" THEN Raised("process_query", c, NotConnectedMsg)
                      ELSE Returned("process_user_query", c, SorryMsg(NotConnectedMsg))
    ELSE /\ pc' = "call_model"
         /\ self' = c
         /\ via' = v
         /\ query' = q
         /\ conversation_history' = InitialHistory(obj, q)
         /\ final_response' = <<>>
         /\ text_chunks' = <<>>
         /\ tool_calls' = <<>>
         /\ idx' = 0
         /\ served' = srv \cup {q}
         /\ engineCalls' = 0
         /\ engineLog' = <<>>
         /\ sentHistory' = <<>>
         /\ sentTools' = <<>>
         /\ gwTrace' = <<>>
         /\ lastOp' = Pending(IF v = "direct" THEN "process_query" ELSE "process_user_query", c)

\* connector.process_query(q), called on an object the caller holds.
process_query(c, q) ==
    /\ UNCHANGED <<serverVars, callerVars>>
    /\ NoCallInFlight
    /\ c \in Created
    /\ EnterProcessQuery(c, objs[c], "direct", q, served)
    /\ UNCHANGED <<_instance, objs, connects, listings>>

\* process_user_query(q): get_connector, then process_query.
process_user_query(q, o) ==
    /\ UNCHANGED <<serverVars, callerVars>>
    /\ NoCallInFlight
    /\ CanGetConnector
    /\ LET g == GetConnectorResult(o)
       IN /\ _instance' = g.inst
          /\ objs' = g.objs
          /\ connects' = g.connects
          /\ listings' = g.listings
          /\ EnterProcessQuery(g.inst, g.objs[g.inst], "wrapper", q,
                               IF g.created THEN {} ELSE served)

\* One engine call that answers: the assistant turn, the split, and either the
\* start of the for loop or the return.
call_model(shape) ==
    /\ UNCHANGED <<serverVars, callerVars>>
    /\ pc = "call_model"
    /\ engineCalls < MaxRounds
    /\ LET content == Stamp(shape, Len(engineLog) + 1)
           calls == ToolCallsOf(content)
           chunks == TextChunksOf(content)
       IN /\ sentHistory' = conversation_history
          /\ sentTools' = objs[self].available_tools
          /\ engineCalls' = engineCalls + 1
          /\ engineLog' = Append(engineLog, content)
          /\ conversation_history' = Append(conversation_history, AssistantTurn(content))
          /\ tool_calls' = calls
          /\ text_chunks' = chunks
          /\ IF calls # <<>>
             THEN /\ idx' = 1
                  /\ pc' = "call_tool"
                  /\ final_response' = FinalAfterToolRound(final_response, chunks)
                  /\ UNCHANGED lastOp
             ELSE /\ idx' = 0
                  /\ pc' = "done"
                  /\ final_response' = FinalAfterTextRound(final_response, chunks)
                  /\ lastOp' = Deliver("return", ReturnValue(FinalAfterTextRound(final_response, chunks)))
    /\ UNCHANGED <<self, via, query, gwTrace>>
    /\ UNCHANGED facadeVars

\* One engine call that raises: nothing in process_query catches it.
call_model_raises(e) ==
    /\ UNCHANGED <<serverVars, callerVars>>
    /\ pc = "call_model"
    /\ engineCalls < MaxRounds
    /\ sentHistory' = conversation_history
    /\ sentTools' = objs[self].available_tools
    /\ engineCalls' = engineCalls + 1
    /\ pc' = "raised"
    /\ lastOp' = Deliver("raise", e)
    /\ UNCHANGED <<self, via, query, conversation_history, final_response, text_chunks,
                   tool_calls, idx, engineLog, gwTrace>>
    /\ UNCHANGED facadeVars

GwEvent(ev, tc, outcome) ==
    [round |-> Len(engineLog), id |-> tc.id, name |-> tc.name, ev |-> ev, outcome |-> outcome]

\* A while loop that ends after the for loop of its first pass.
AfterInvocationEndsLoop(i, calls) == IF i < Len(calls) THEN "call_tool" ELSE "done"

\* A for loop that stops one request early.
AfterInvocationSkipsLast(i, calls) == IF i + 1 < Len(calls) THEN "call_tool" ELSE "call_model"

\* Where the for loop goes after the invocation at position i.
AfterInvocation(i, calls) == IF i < Len(calls) THEN "call_tool" ELSE "call_model"

\* An except branch that leaves the for loop.
tool_failed_breaks(tc, e) ==
    /\ text_chunks' = Append(text_chunks, <<"\n">> \o <<"Error calling tool ", tc.name, ": ", e>>)
    /\ idx' = idx + 1
    /\ pc' = "call_model"
    /\ UNCHANGED conversation_history

\* The except branch of the for loop body.
tool_failed(tc, e) ==
    /\ text_chunks' = Append(text_chunks, ErrorChunk(tc.name, e))
    /\ idx' = idx + 1
    /\ pc' = AfterInvocation(idx, tool_calls)
    /\ UNCHANGED conversation_history

\* The for loop body up to the await of the remote call.
call_tool_start ==
    /\ UNCHANGED <<serverVars, callerVars>>
    /\ pc = "call_tool"
    /\ LET tc == tool_calls[idx]
       IN IF ~objs[self].mcp_client.session
          THEN /\ tool_failed(tc, "Not connected to server")
               /\ UNCHANGED gwTrace
          ELSE /\ pc' = "await_tool"
               /\ gwTrace' = Append(gwTrace, GwEvent("start", tc, "none"))
               /\ UNCHANGED <<conversation_history, text_chunks, idx>>
    /\ UNCHANGED <<self, via, query, final_response, tool_calls, engineCalls, engineLog,
                   sentHistory, sentTools, lastOp>>
    /\ UNCHANGED facadeVars

\* The remote call returns: the tool-result turn.
call_tool_returns(content) ==
    /\ UNCHANGED <<serverVars, callerVars>>
    /\ pc = "await_tool"
    /\ LET tc == tool_calls[idx]
       IN /\ gwTrace' = Append(gwTrace, GwEvent("end", tc, "returned"))
          /\ conversation_history' =
                Append(conversation_history, ToolResultTurn(tc.id, ExtractToolText(content)))
          /\ idx' = idx + 1
          /\ pc' = AfterInvocation(idx, tool_calls)
    /\ UNCHANGED <<self, via, query, final_response, text_chunks, tool_calls, engineCalls,
                   engineLog, sentHistory, sentTools, lastOp>>
    /\ UNCHANGED facadeVars

\* The remote call raises: call_tool re-raises, process_query catches.
call_tool_raises(e) ==
    /\ UNCHANGED <<serverVars, callerVars>>
    /\ pc = "await_tool"
    /\ LET tc == tool_calls[idx]
       IN /\ gwTrace' = Append(gwTrace, GwEvent("end", tc, e))
          /\ tool_failed(tc, e)
    /\ UNCHANGED <<self, via, query, final_response, tool_calls, engineCalls, engineLog,
                   sentHistory, sentTools, lastOp>>
    /\ UNCHANGED facadeVars

\* process_query has returned or raised and the caller has its outcome: the
\* locals of the call are gone.
process_query_ends ==
    /\ UNCHANGED <<serverVars, callerVars>>
    /\ pc \in {"done", "raised"}
    /\ DropFrame
    /\ UNCHANGED facadeVars
    /\ UNCHANGED lastOp

----------------------------------------------------------------------------
(* LlmMcpConnector: the describe operations and the data operations *)

\* What a remote read or a remote prompt request can give.
RemoteResults ==
    {[raised |-> FALSE, content |-> c] : c \in ToolContents}
    \cup {[raised |-> TRUE, error |-> e] : e \in ToolErrors}

PromptResults ==
    {[raised |-> FALSE, description |-> d] : d \in {<<>>, <<"d_compare">>}}
    \cup {[raised |-> TRUE, error |-> e] : e \in ToolErrors}

\* LlmMcpConnector.get_tool_descriptions
ToolDescriptions(obj) ==
    IF obj.available_tools = <<>> THEN <<"No tools available">>
    ELSE JoinWith(<<"\n\n">>,
            [i \in 1..Len(obj.available_tools) |->
                <<obj.available_tools[i].name, ": ", obj.available_tools[i].description,
                  "\n  Input schema: ", obj.available_tools[i].input_schema>>])

\* LlmMcpConnector.get_resource_descriptions
ResourceDescriptions(obj) ==
    IF obj.available_resources = <<>> THEN <<"No resources available">>
    ELSE JoinWith(<<"\n\n">>,
            [i \in 1..Len(obj.available_resources) |->
                <<obj.available_resources[i].uri, ": ", obj.available_resources[i].description>>])

\* LlmMcpConnector.get_prompt_descriptions
PromptDescriptions(obj) ==
    IF obj.available_prompts = <<>> THEN <<"No prompts available">>
    ELSE JoinWith(<<"\n\n">>,
            [i \in 1..Len(obj.available_prompts) |->
                <<obj.available_prompts[i].name, ": ", obj.available_prompts[i].description,
                  "\n  Arguments: ">> \o obj.available_prompts[i].arguments])

NotConnectedInfo == <<"Not connected to server">>

\* LlmMcpConnector.get_server_info: the header lines of the report (the
\* per-entry lines that follow are left out).
ServerInfo(obj) ==
    IF ~obj.is_connected THEN NotConnectedInfo
    ELSE IF ~obj.mcp_client.capabilities.loaded /\ ~obj.mcp_client.session
    THEN <<"Error getting server info: ", "Not connected to server">>
    ELSE JoinWith(<<"\n">>,
            << <<"Server Information:">>,
               <<"Tools: ", ToString(Len(obj.available_tools))>>,
               <<"Resources: ", ToString(Len(obj.available_resources))>>,
               <<"Prompts: ", ToString(Len(obj.available_prompts))>> >>)

Describe(op, obj) ==
    CASE op = "get_tool_descriptions" -> ToolDescriptions(obj)
      [] op = "get_resource_descriptions" -> ResourceDescriptions(obj)
      [] op = "get_prompt_descriptions" -> PromptDescriptions(obj)
      [] op = "get_server_info" -> ServerInfo(obj)

DescribeOps ==
    {"get_tool_descriptions", "get_resource_descriptions", "get_prompt_descriptions",
     "get_server_info"}

\* The module-level function that wraps each describe operation.
WrapperOf(op) ==
    CASE op = "get_tool_descriptions" -> "get_available_tools"
      [] op = "get_resource_descriptions" -> "get_available_resources"
      [] op = "get_prompt_descriptions" -> "get_available_prompts"
      [] op = "get_server_info" -> "get_server_info_wrapper"

\* A describe operation that uses the list it formats up: the object is left
\* with an empty tool manifest.
describe_consumes(c, op) ==
    /\ UNCHANGED <<serverVars, callerVars>>
    /\ NoCallInFlight
    /\ c \in Created
    /\ lastOp' = Returned(op, c, Describe(op, objs[c]))
    /\ objs' = [objs EXCEPT ![c].available_tools = <<>>]
    /\ UNCHANGED <<_instance, connects, listings, served>>
    /\ UNCHANGED queryVars

\* connector.get_tool_descriptions() and its three siblings, called on an
\* object the caller holds.
describe(c, op) ==
    /\ UNCHANGED <<serverVars, callerVars>>
    /\ NoCallInFlight
    /\ c \in Created
    /\ lastOp' = Returned(op, c, Describe(op, objs[c]))
    /\ UNCHANGED facadeVars
    /\ UNCHANGED queryVars

\* get_available_tools() and its three siblings: get_connector, then the
\* describe operation (neither raises).
describe_wrapper(op, o) ==
    /\ UNCHANGED <<serverVars, callerVars>>
    /\ NoCallInFlight
    /\ CanGetConnector
    /\ LET g == GetConnectorResult(o)
       IN /\ ApplyGetConnector(g)
          /\ lastOp' = Returned(WrapperOf(op), g.inst, Describe(op, g.objs[g.inst]))
    /\ UNCHANGED queryVars

\* TrailMcpClient.read_resource seen from LlmMcpConnector.get_resource_data.
ResourceText(content) ==
    IF content # <<>>
    THEN JoinWith(<<"\n">>,
            [i \in 1..Len(SelectSeq(content, LAMBDA x : x.type = "text")) |->
                SelectSeq(content, LAMBDA x : x.type = "text")[i].text])
    ELSE <<"No content returned from resource">>

\* LlmMcpConnector.get_resource_data
get_resource_data(c, uri, r) ==
    /\ UNCHANGED <<serverVars, callerVars>>
    /\ NoCallInFlight
    /\ c \in Created
    /\ lastOp' =
         IF ~objs[c].is_connected THEN Raised("get_resource_data", c, NotConnectedMsg)
         ELSE IF ~objs[c].mcp_client.session
         THEN Returned("get_resource_data", c, <<"Error reading resource: ", "Not connected to server">>)
         ELSE IF r.raised
         THEN Returned("get_resource_data", c, <<"Error reading resource: ", r.error>>)
         ELSE Returned("get_resource_data", c, ResourceText(r.content))
    /\ UNCHANGED facadeVars
    /\ UNCHANGED queryVars

\* LlmMcpConnector.get_prompt_data
get_prompt_data(c, name, r) ==
    /\ UNCHANGED <<serverVars, callerVars>>
    /\ NoCallInFlight
    /\ c \in Created
    /\ lastOp' =
         IF ~objs[c].is_connected THEN Raised("get_prompt_data", c, NotConnectedMsg)
         ELSE IF ~objs[c].mcp_client.session
         THEN Returned("get_prompt_data", c, <<"Error getting prompt: ", "Not connected to server">>)
         ELSE IF r.raised
         THEN Returned("get_prompt_data", c, <<"Error getting prompt: ", r.error>>)
         ELSE IF r.description # <<>>
         THEN Returned("get_prompt_data", c, r.description)
         ELSE Returned("get_prompt_data", c, <<"Prompt: ", name>>)
    /\ UNCHANGED facadeVars
    /\ UNCHANGED queryVars

----------------------------------------------------------------------------
(* trail_mcp_server.py: configuration, the category table, the inputs *)

\* Config
query_timeout == 30
max_trails_display == 50

\* TRAIL_TYPES, and its keys in the order of declaration.
TRAIL_TYPES ==
    [hiking |-> [route |-> <<"hiking", "foot">>,
                 highway |-> <<"footway", "path", "track", "bridleway", "steps">>,
                 foot |-> "yes",
                 access_exclude |-> <<"private", "no">>],
     biking |-> [route |-> <<"bicycle", "mtb">>,
                 highway |-> <<"cycleway", "path", "track">>,
                 bicycle |-> "yes",
                 access_exclude |-> <<"private", "no">>],
     walking |-> [route |-> <<"walking", "foot">>,
                  highway |-> <<"footway", "pedestrian", "path", "steps">>,
                  foot |-> "yes",
                  access_exclude |-> <<"private", "no">>]]

TrailTypeKeys == <<"hiking", "biking", "walking">>

\* An optional argument: <<>> for None, <<v>> for the value v.
None == <<>>
Some(v) == <<v>>

\* The arguments the tools are called with. Latitudes and longitudes around
\* the edges of their ranges; category lists; area names as strings of
\* characters.
Lats == {-91, -90, 0, 90, 91}
Lons == {-181, -180, 0, 180, 181}
TrailTypeArgs ==
    {None, Some(<<>>), Some(<<"bogus">>), Some(<<"hiking", "bogus">>), Some(<<"walking", "biking">>)}
AreaNames == {<<>>, <<" ">>, <<"P", "k">>, <<" ", "P", "\"", "k", " ">>}

\* The outcome of a call: a value, or an exception with its type and message.
Ok(v) == [outcome |-> "return", value |-> v]
Exc(type, message) == [outcome |-> "raise", type |-> type, message |-> message]

RECURSIVE Flatten(_)
Flatten(ss) == IF ss = <<>> THEN <<>> ELSE Head(ss) \o Flatten(Tail(ss))

\* str.strip()
Whitespace == {" ", "\t", "\n"}

RECURSIVE LStrip(_)
LStrip(chars) ==
    IF chars # <<>> /\ Head(chars) \in Whitespace THEN LStrip(Tail(chars)) ELSE chars

RECURSIVE RStrip(_)
RStrip(chars) ==
    IF chars # <<>> /\ chars[Len(chars)] \in Whitespace
    THEN RStrip(SubSeq(chars, 1, Len(chars) - 1))
    ELSE chars

Strip(chars) == RStrip(LStrip(chars))

\* str.replace('"', '\\"')
EscapeQuotes(chars) ==
    Flatten([i \in 1..Len(chars) |-> IF chars[i] = "\"" THEN <<"\\", "\"">> ELSE <<chars[i]>>])

----------------------------------------------------------------------------
(* validate_trail_types and OverpassQueryBuilder *)

\* A validate_trail_types that falls back to all keys when no key is left.
ValidateTrailTypesFallsBack(trail_types) ==
    IF trail_types = None THEN Ok(TrailTypeKeys)
    ELSE LET valid_types == SelectSeq(trail_types[1], LAMBDA t : t \in DOMAIN TRAIL_TYPES)
         IN IF valid_types = <<>> THEN Ok(TrailTypeKeys) ELSE Ok(valid_types)

\* validate_trail_types
ValidateTrailTypes(trail_types) ==
    IF trail_types = None THEN Ok(TrailTypeKeys)
    ELSE LET valid_types == SelectSeq(trail_types[1], LAMBDA t : t \in DOMAIN TRAIL_TYPES)
         IN IF valid_types = <<>>
            THEN Exc("ValueError", <<"No valid trail types specified. Use: hiking, biking, or walking">>)
            ELSE Ok(valid_types)

\* OverpassQueryBuilder.build_access_filters
BuildAccessFilters(access_exclude) ==
    Flatten([i \in 1..Len(access_exclude) |-> <<"[\"access\"!=\"", access_exclude[i], "\"]">>])

QueryHeader == <<"[out:json][timeout:", ToString(query_timeout), "][maxsize:1073741824];">>

BoxText(south, west, north, east) ==
    <<"(", ToString(south), ",", ToString(west), ",", ToString(north), ",", ToString(east), ");">>

\* Category lines whose way clauses carry no access exclusions.
BboxClausesOpenAccess(trail_types, box) ==
    Flatten([i \in 1..Len(trail_types) |->
        IF trail_types[i] \in DOMAIN TRAIL_TYPES
        THEN LET tags == TRAIL_TYPES[trail_types[i]]
             IN [k \in 1..Len(tags.route) |->
                    <<"  relation[\"route\"=\"", tags.route[k], "\"]">> \o box]
                \o [k \in 1..Len(tags.highway) |->
                    <<"  way[\"highway\"=\"", tags.highway[k], "\"]">> \o box]
        ELSE <<>>])

\* The lines build_bbox_query appends for the categories: for each one that is
\* in the table, a relation line per route value, then a way line per highway
\* value.
BboxClauses(trail_types, box) ==
    Flatten([i \in 1..Len(trail_types) |->
        IF trail_types[i] \in DOMAIN TRAIL_TYPES
        THEN LET tags == TRAIL_TYPES[trail_types[i]]
                 access_filters == BuildAccessFilters(tags.access_exclude)
             IN [k \in 1..Len(tags.route) |->
                    <<"  relation[\"route\"=\"", tags.route[k], "\"]">> \o box]
                \o [k \in 1..Len(tags.highway) |->
                    <<"  way[\"highway\"=\"", tags.highway[k], "\"]">> \o access_filters \o box]
        ELSE <<>>])

\* A build_bbox_query that rejects an inverted box but not an empty one.
BuildBboxQueryAllowsEqual(south, west, north, east, trail_types) ==
    LET types == IF trail_types = None THEN TrailTypeKeys ELSE trail_types[1]
    IN IF ~(-90 <= south /\ south <= 90) \/ ~(-90 <= north /\ north <= 90)
       THEN Exc("ValueError", <<"Latitude must be between -90 and 90 degrees">>)
       ELSE IF ~(-180 <= west /\ west <= 180) \/ ~(-180 <= east /\ east <= 180)
       THEN Exc("ValueError", <<"Longitude must be between -180 and 180 degrees">>)
       ELSE IF south > north
       THEN Exc("ValueError", <<"South latitude must be less than north latitude">>)
       ELSE IF west > east
       THEN Exc("ValueError", <<"West longitude must be less than east longitude">>)
       ELSE Ok(JoinWith(<<"\n">>,
                  <<QueryHeader, <<"(">> >>
                  \o BboxClauses(types, BoxText(south, west, north, east))
                  \o << <<");">>, <<"out geom;">> >>))

\* OverpassQueryBuilder.build_bbox_query
BuildBboxQuery(south, west, north, east, trail_types) ==
    LET types == IF trail_types = None THEN TrailTypeKeys ELSE trail_types[1]
    IN IF ~(-90 <= south /\ south <= 90) \/ ~(-90 <= north /\ north <= 90)
       THEN Exc("ValueError", <<"Latitude must be between -90 and 90 degrees">>)
       ELSE IF ~(-180 <= west /\ west <= 180) \/ ~(-180 <= east /\ east <= 180)
       THEN Exc("ValueError", <<"Longitude must be between -180 and 180 degrees">>)
       ELSE IF south >= north
       THEN Exc("ValueError", <<"South latitude must be less than north latitude">>)
       ELSE IF west >= east
       THEN Exc("ValueError", <<"West longitude must be less than east longitude">>)
       ELSE Ok(JoinWith(<<"\n">>,
                  <<QueryHeader, <<"(">> >>
                  \o BboxClauses(types, BoxText(south, west, north, east))
                  \o << <<");">>, <<"out geom;">> >>))

\* The lines of an area query for the categories (build_area_query, and the
\* copy of the loop in search_trails_by_area_name).
AreaClauses(trail_types) ==
    Flatten([i \in 1..Len(trail_types) |->
        IF trail_types[i] \in DOMAIN TRAIL_TYPES
        THEN LET tags == TRAIL_TYPES[trail_types[i]]
                 access_filters == BuildAccessFilters(tags.access_exclude)
             IN [k \in 1..Len(tags.route) |->
                    <<"  relation(area.searchArea)[\"route\"=\"", tags.route[k], "\"];">>]
                \o [k \in 1..Len(tags.highway) |->
                    <<"  way(area.searchArea)[\"highway\"=\"", tags.highway[k], "\"]">>
                    \o access_filters \o <<";">>]
        ELSE <<>>])

\* The area line of a query and the document around it.
AreaLine(sanitized_area, scope) ==
    <<"area[\"name\"=\"">> \o sanitized_area \o <<"\"]">> \o scope \o <<"->.searchArea;">>

AreaDocument(area_line, trail_types) ==
    JoinWith(<<"\n">>,
        <<QueryHeader, <<"(">>, area_line, <<");">>, <<"(">> >>
        \o AreaClauses(trail_types)
        \o << <<");">>, <<"out geom;">> >>)

\* A build_area_query that puts the stripped name into the query as it is.
BuildAreaQueryUnescaped(area_name, trail_types) ==
    LET types == IF trail_types = None THEN TrailTypeKeys ELSE trail_types[1]
    IN IF area_name = <<>> \/ Strip(area_name) = <<>>
       THEN Exc("ValueError", <<"Area name cannot be empty">>)
       ELSE Ok(AreaDocument(
                  <<"  ">> \o AreaLine(Strip(area_name), <<"[\"leisure\"=\"park\"]">>),
                  types))

\* OverpassQueryBuilder.build_area_query
BuildAreaQuery(area_name, trail_types) ==
    LET types == IF trail_types = None THEN TrailTypeKeys ELSE trail_types[1]
    IN IF area_name = <<>> \/ Strip(area_name) = <<>>
       THEN Exc("ValueError", <<"Area name cannot be empty">>)
       ELSE Ok(AreaDocument(
                  <<"  ">> \o AreaLine(EscapeQuotes(Strip(area_name)), <<"[\"leisure\"=\"park\"]">>),
                  types))


----------------------------------------------------------------------------
(* The backend (environment) and query_overpass *)

\* Elements of a response document.
ElemPath == [type |-> "way", id |-> 1,
             tags |-> [name |-> "Loop", highway |-> "path", surface |-> "gravel"]]
ElemRoute == [type |-> "relation", id |-> 2, tags |-> [route |-> "bicycle", difficulty |-> "easy"]]
ElemBare == [type |-> "node", id |-> 3]

\* A parsed JSON value: an object with its members, or something else.
JsonObject(members) == [kind |-> "object", members |-> members]
JsonArray == [kind |-> "array"]

\* Ways with the surface and difficulty tags of a list of pairs; "" is for a
\* tag the way does not have.
TaggedWays(pairs) ==
    [i \in DOMAIN pairs |->
        [type |-> "way", id |-> i,
         tags |-> ("highway" :> "path")
                  @@ (IF pairs[i][1] # "" THEN "surface" :> pairs[i][1] ELSE <<>>)
                  @@ (IF pairs[i][2] # "" THEN "difficulty" :> pairs[i][2] ELSE <<>>)]]

\* Two surveys: one with two surfaces, and one with thirteen, of which three
\* are more frequent than the rest and two of these equally frequent.
SmallSurvey == TaggedWays(<< <<"dirt", "">>, <<"gravel", "easy">>, <<"gravel", "easy">> >>)
WideSurvey ==
    TaggedWays(<< <<"gravel", "easy">>, <<"dirt", "">>, <<"dirt", "hard">>, <<"asphalt", "hard">>,
                  <<"asphalt", "">>, <<"asphalt", "medium">>, <<"", "easy">>, <<"sand", "">>,
                  <<"grass", "">>, <<"rock", "hard">>, <<"wood", "">>, <<"clay", "">>,
                  <<"mud", "">>, <<"paved", "">>, <<"cobble", "">>, <<"ground", "">>,
                  <<"gravel", "">> >>)

\* The bodies a response can carry: documents with no, one and three
\* elements, the two surveys, a document without an elements member, a JSON
\* array, and text that is not JSON.
ResponseBodies ==
    {[text |-> "json", value |-> JsonObject(m)] :
        m \in {[elements |-> <<>>], [elements |-> <<ElemPath>>],
               [elements |-> <<ElemBare, ElemRoute, ElemPath>>],
               [elements |-> SmallSurvey], [elements |-> WideSurvey],
               [remark |-> "runtime error: Query timed out"]}}
    \cup {[text |-> "json", value |-> JsonArray], [text |-> "html"]}

\* What the POST can do: answer with a status and a body, or raise. The
\* exceptions are a timeout and a connection failure (both httpx.HTTPError)
\* and one that is no httpx error.
BackendBehaviours ==
    {[post |-> "response", status |-> 200, body |-> b] : b \in ResponseBodies}
    \cup {[post |-> "response", status |-> 504, body |-> [text |-> "html"]]}
    \cup {[post |-> "raise", exc |-> x] : x \in {"ReadTimeout", "ConnectError", "RuntimeError"}}

HttpxHTTPErrors == {"HTTPStatusError", "ReadTimeout", "ConnectError"}

\* The exception raised inside the try block of query_overpass, if any: by the
\* POST, by raise_for_status, by response.json().
RaisedInRequest(b) ==
    IF b.post = "raise" THEN Some(b.exc)
    ELSE IF ~(200 <= b.status /\ b.status < 300) THEN Some("HTTPStatusError")
    ELSE IF b.body.text # "json" THEN Some("JSONDecodeError")
    ELSE None

\* A query_overpass without the last except clause.
QueryOverpassTwoHandlers(b) ==
    LET raised == RaisedInRequest(b)
    IN IF raised = None THEN Ok(b.body.value)
       ELSE IF raised[1] \in HttpxHTTPErrors
       THEN Exc("OverpassAPIError", <<"Overpass API error: ", raised[1]>>)
       ELSE IF raised[1] = "JSONDecodeError"
       THEN Exc("OverpassAPIError", <<"Invalid JSON response from Overpass API">>)
       ELSE Exc(raised[1], <<raised[1]>>)

\* query_overpass: the three except clauses in their order.
QueryOverpass(b) ==
    LET raised == RaisedInRequest(b)
    IN IF raised = None THEN Ok(b.body.value)
       ELSE IF raised[1] \in HttpxHTTPErrors
       THEN Exc("OverpassAPIError", <<"Overpass API error: ", raised[1]>>)
       ELSE IF raised[1] = "JSONDecodeError"
       THEN Exc("OverpassAPIError", <<"Invalid JSON response from Overpass API">>)
       ELSE Exc("OverpassAPIError", <<"Unexpected error: ", raised[1]>>)

----------------------------------------------------------------------------
(* identify_trail_type, format_trail_data and the statistics report *)

\* dict.get(key, default)
Get(d, key, default) == IF key \in DOMAIN d THEN d[key] ELSE default

\* element.get("tags", {})
TagsOf(element) == Get(element, "tags", <<>>)

\* data.get("elements", ...) of a parsed document; a value that is no object
\* has no get.
GetElements(data, default) ==
    IF data.kind = "object" THEN Ok(Get(data.members, "elements", default))
    ELSE Exc("AttributeError", <<"'list' object has no attribute 'get'">>)

\* An identify_trail_type that looks at the highway and access tags first.
IdentifyTrailTypeHighwayFirst(tags) ==
    LET route == Get(tags, "route", "")
        highway == Get(tags, "highway", "")
    IN IF highway \in {"cycleway"} \/ Get(tags, "bicycle", "") = "yes" THEN Some("biking")
       ELSE IF highway \in {"footway", "pedestrian"} \/ Get(tags, "foot", "") = "yes" THEN Some("hiking")
       ELSE IF highway \in {"path", "track"}
       THEN IF Get(tags, "bicycle", "") = "yes" THEN Some("biking") ELSE Some("hiking")
       ELSE IF route \in {"hiking", "foot"} THEN Some("hiking")
       ELSE IF route \in {"bicycle", "mtb"} THEN Some("biking")
       ELSE IF route \in {"walking"} THEN Some("walking")
       ELSE None

\* identify_trail_type: the category, or None.
IdentifyTrailType(tags) ==
    LET route == Get(tags, "route", "")
        highway == Get(tags, "highway", "")
    IN IF route \in {"hiking", "foot"} THEN Some("hiking")
       ELSE IF route \in {"bicycle", "mtb"} THEN Some("biking")
       ELSE IF route \in {"walking"} THEN Some("walking")
       ELSE IF highway \in {"cycleway"} \/ Get(tags, "bicycle", "") = "yes" THEN Some("biking")
       ELSE IF highway \in {"footway", "pedestrian"} \/ Get(tags, "foot", "") = "yes" THEN Some("hiking")
       ELSE IF highway \in {"path", "track"}
       THEN IF Get(tags, "bicycle", "") = "yes" THEN Some("biking") ELSE Some("hiking")
       ELSE None

\* str.title() on the category keys
Title(t) ==
    CASE t = "hiking" -> "Hiking"
      [] t = "biking" -> "Biking"
      [] t = "walking" -> "Walking"
      [] t = "unknown" -> "Unknown"

\* The detail line of a classified element.
TrailLine(element) ==
    LET tags == TagsOf(element)
        Field(key, label) == IF key \in DOMAIN tags THEN << <<label, tags[key]>> >> ELSE <<>>
        trail_info ==
            << <<Get(tags, "name", "Unnamed trail"), " (", Title(IdentifyTrailType(tags)[1])>> >>
            \o Field("distance", "Distance: ") \o Field("surface", "Surface: ")
            \o Field("difficulty", "Difficulty: ") \o Field("description", "Description: ")
    IN JoinWith(<<" | ">>, trail_info) \o <<")">>

NoTrailsFound == <<"No trails found in the specified area.">>

\* A format_trail_data whose notice counts the elements, not the detail lines.
FormatTrailDataCountsElements(data) ==
    LET got == GetElements(data, <<>>)
    IN IF got.outcome = "raise" THEN got
       ELSE IF got.value = <<>> THEN Ok(NoTrailsFound)
       ELSE LET elements == got.value
                classified == SelectSeq(elements, LAMBDA el : IdentifyTrailType(TagsOf(el)) # None)
                formatted_trails == [i \in 1..Len(classified) |-> TrailLine(classified[i])]
                trail_count == [t \in DOMAIN TRAIL_TYPES |->
                    Cardinality({i \in 1..Len(classified) :
                                    IdentifyTrailType(TagsOf(classified[i])) = Some(t)})]
                shown == IF Len(formatted_trails) > max_trails_display
                         THEN SubSeq(formatted_trails, 1, max_trails_display)
                         ELSE formatted_trails
            IN Ok(<<"Found ", ToString(Len(elements)), " trail elements:\n">>
                  \o Flatten([k \in 1..Len(TrailTypeKeys) |->
                        IF trail_count[TrailTypeKeys[k]] > 0
                        THEN <<"- ", Title(TrailTypeKeys[k]), ": ",
                               ToString(trail_count[TrailTypeKeys[k]]), "\n">>
                        ELSE <<>>])
                  \o <<"\n">>
                  \o (IF formatted_trails = <<>> THEN <<>>
                      ELSE <<"Trail Details:\n">> \o JoinWith(<<"\n">>, shown)
                           \o (IF Len(formatted_trails) > max_trails_display
                               THEN <<"\n... and ",
                                      ToString(Len(elements) - max_trails_display),
                                      " more trails">>
                               ELSE <<>>)))

\* format_trail_data
FormatTrailData(data) ==
    LET got == GetElements(data, <<>>)
    IN IF got.outcome = "raise" THEN got
       ELSE IF got.value = <<>> THEN Ok(NoTrailsFound)
       ELSE LET elements == got.value
                classified == SelectSeq(elements, LAMBDA el : IdentifyTrailType(TagsOf(el)) # None)
                formatted_trails == [i \in 1..Len(classified) |-> TrailLine(classified[i])]
                trail_count == [t \in DOMAIN TRAIL_TYPES |->
                    Cardinality({i \in 1..Len(classified) :
                                    IdentifyTrailType(TagsOf(classified[i])) = Some(t)})]
                shown == IF Len(formatted_trails) > max_trails_display
                         THEN SubSeq(formatted_trails, 1, max_trails_display)
                         ELSE formatted_trails
            IN Ok(<<"Found ", ToString(Len(elements)), " trail elements:\n">>
                  \o Flatten([k \in 1..Len(TrailTypeKeys) |->
                        IF trail_count[TrailTypeKeys[k]] > 0
                        THEN <<"- ", Title(TrailTypeKeys[k]), ": ",
                               ToString(trail_count[TrailTypeKeys[k]]), "\n">>
                        ELSE <<>>])
                  \o <<"\n">>
                  \o (IF formatted_trails = <<>> THEN <<>>
                      ELSE <<"Trail Details:\n">> \o JoinWith(<<"\n">>, shown)
                           \o (IF Len(formatted_trails) > max_trails_display
                               THEN <<"\n... and ",
                                      ToString(Len(formatted_trails) - max_trails_display),
                                      " more trails">>
                               ELSE <<>>)))

\* The keys of a histogram in the order they were first seen.
RECURSIVE FirstSeen(_)
FirstSeen(values) ==
    IF values = <<>> THEN <<>>
    ELSE LET before == FirstSeen(SubSeq(values, 1, Len(values) - 1))
             last == values[Len(values)]
         IN IF \E i \in 1..Len(before) : before[i] = last THEN before ELSE Append(before, last)

CountOf(v, values) == Cardinality({i \in 1..Len(values) : values[i] = v})

\* A sort by falling count that puts the later of two equal counts first.
RECURSIVE SortedByCountLaterFirst(_, _)
SortedByCountLaterFirst(keys, values) ==
    IF keys = <<>> THEN <<>>
    ELSE LET before == SortedByCountLaterFirst(SubSeq(keys, 1, Len(keys) - 1), values)
             last == keys[Len(keys)]
             ahead == Cardinality({i \in 1..Len(before) :
                                      CountOf(before[i], values) > CountOf(last, values)})
         IN SubSeq(before, 1, ahead) \o <<last>> \o SubSeq(before, ahead + 1, Len(before))

\* sorted(items, key=count, reverse=True): by falling count, equal counts in
\* their first order.
RECURSIVE SortedByCount(_, _)
SortedByCount(keys, values) ==
    IF keys = <<>> THEN <<>>
    ELSE LET before == SortedByCount(SubSeq(keys, 1, Len(keys) - 1), values)
             last == keys[Len(keys)]
             ahead == Cardinality({i \in 1..Len(before) :
                                      CountOf(before[i], values) >= CountOf(last, values)})
         IN SubSeq(before, 1, ahead) \o <<last>> \o SubSeq(before, ahead + 1, Len(before))

NoTrailData == <<"No trail data found for the specified area.">>

\* get_trail_statistics from the parsed document on.
StatisticsReport(data) ==
    LET got == GetElements(data, <<>>)
    IN IF got.outcome = "raise" THEN got
       ELSE IF got.value = <<>> THEN Ok(NoTrailData)
       ELSE LET elements == got.value
                types == [i \in 1..Len(elements) |->
                            LET t == IdentifyTrailType(TagsOf(elements[i]))
                            IN IF t # None THEN t[1] ELSE "unknown"]
                surfaces == [i \in 1..Len(elements) |-> Get(TagsOf(elements[i]), "surface", "unknown")]
                difficulties == [i \in 1..Len(elements) |-> Get(TagsOf(elements[i]), "difficulty", "unknown")]
                statKeys == TrailTypeKeys \o <<"unknown">>
                bySurface == SortedByCount(FirstSeen(surfaces), surfaces)
                byDifficulty == SortedByCount(FirstSeen(difficulties), difficulties)
                topSurfaces == IF Len(bySurface) > 10 THEN SubSeq(bySurface, 1, 10) ELSE bySurface
            IN Ok(<<"Trail Statistics:\n\n">>
                  \o <<"Total elements: ", ToString(Len(elements)), "\n\n">>
                  \o <<"By Type:\n">>
                  \o Flatten([k \in 1..Len(statKeys) |->
                        IF CountOf(statKeys[k], types) > 0
                        THEN <<"- ", Title(statKeys[k]), ": ", ToString(CountOf(statKeys[k], types)), "\n">>
                        ELSE <<>>])
                  \o <<"\nBy Surface:\n">>
                  \o Flatten([k \in 1..Len(topSurfaces) |->
                        <<"- ", topSurfaces[k], ": ", ToString(CountOf(topSurfaces[k], surfaces)), "\n">>])
                  \o <<"\nBy Difficulty:\n">>
                  \o Flatten([k \in 1..Len(byDifficulty) |->
                        IF byDifficulty[k] # "unknown"
                        THEN <<"- ", byDifficulty[k], ": ",
                               ToString(CountOf(byDifficulty[k], difficulties)), "\n">>
                        ELSE <<>>]))


----------------------------------------------------------------------------
(* The tools of the server *)

OptAreaNames == {None} \cup {Some(a) : a \in AreaNames}

\* The arguments get_trail_statistics is called with: every box without an
\* area name, and every area name without coordinates, with some of them and
\* with all of them.
StatisticsArgs ==
    {[area_name |-> None, south |-> Some(s), west |-> Some(w), north |-> Some(n), east |-> Some(e)] :
        s \in Lats, w \in Lons, n \in Lats, e \in Lons}
    \cup {[area_name |-> a, south |-> c[1], west |-> c[2], north |-> c[3], east |-> c[4]] :
            a \in OptAreaNames,
            c \in {<<None, None, None, None>>, <<Some(0), None, Some(90), Some(180)>>,
                   <<Some(0), Some(0), Some(90), Some(180)>>, <<Some(91), Some(0), Some(0), Some(0)>>}}

\* search_strategies of search_trails_by_area_name: the name and what the
\* area line adds to the match by name.
SearchStrategies ==
    << [name |-> "park", scope |-> <<"[\"leisure\"=\"park\"]">>],
       [name |-> "administrative", scope |-> <<"[\"boundary\"=\"administrative\"]">>],
       [name |-> "any", scope |-> <<>>] >>

Awaited == [outcome |-> "pending"]

\* A backend query that has been sent and is awaited, and the same once the
\* backend did b and query_overpass ended with r.
Issue(name, document) ==
    [strategy |-> name, query |-> document, backend |-> [post |-> "pending"], result |-> Awaited]

Answered(queries, b, r) ==
    [queries EXCEPT ![Len(queries)].backend = b, ![Len(queries)].result = r]

\* The query of strategy k of search_trails_by_area_name.
StrategyQuery(k, area_name, valid_types) ==
    AreaDocument(AreaLine(EscapeQuotes(Strip(area_name)), SearchStrategies[k].scope), valid_types)

AllStrategiesMissed ==
    <<"No trails found in the specified area after trying multiple search strategies.">>

\* An except clause that catches the backend's error type only.
ExceptOverpassAPIError(prefix, r) ==
    IF r.outcome = "raise" /\ r.type = "OverpassAPIError" THEN Ok(prefix \o r.message) ELSE r

\* The outer try of a tool around a body that ended with r:
\* except Exception as e: return prefix + str(e).
ExceptException(prefix, r) ==
    IF r.outcome = "raise" THEN Ok(prefix \o r.message) ELSE r

\* The tool function ends: it returns text, or an exception leaves it.
ToolReturns(r) ==
    /\ spc' = "returned"
    /\ output' = r

\* The tool function awaits query_overpass(document).
ToolAwaits(name, document) ==
    /\ spc' = "await_backend"
    /\ issued' = Append(issued, Issue(name, document))
    /\ UNCHANGED output

\* search_trails_by_coordinates up to the await of query_overpass.
search_trails_by_coordinates(south, west, north, east, trail_types) ==
    /\ spc = "idle"
    /\ request' = [tool |-> "search_trails_by_coordinates", south |-> south, west |-> west,
                   north |-> north, east |-> east, trail_types |-> trail_types]
    /\ LET valid == ValidateTrailTypes(trail_types)
       IN IF valid.outcome = "raise"
          THEN ToolReturns(ExceptException(<<"Error searching trails: ">>, valid))
               /\ UNCHANGED issued
          ELSE LET built == BuildBboxQuery(south, west, north, east, Some(valid.value))
               IN IF built.outcome = "raise"
                  THEN ToolReturns(ExceptException(<<"Error searching trails: ">>, built))
                       /\ UNCHANGED issued
                  ELSE ToolAwaits("bbox", built.value)
    /\ UNCHANGED strategy
    /\ UNCHANGED clientVars

\* search_trails_by_area_name up to the await of the first strategy's query.
search_trails_by_area_name(area_name, trail_types) ==
    /\ spc = "idle"
    /\ request' = [tool |-> "search_trails_by_area_name", area_name |-> area_name,
                   trail_types |-> trail_types]
    /\ LET valid == ValidateTrailTypes(trail_types)
       IN IF valid.outcome = "raise"
          THEN /\ ToolReturns(ExceptException(<<"Error searching trails: ">>, valid))
               /\ UNCHANGED <<issued, strategy>>
          ELSE /\ strategy' = 1
               /\ ToolAwaits(SearchStrategies[1].name, StrategyQuery(1, area_name, valid.value))
    /\ UNCHANGED clientVars

\* The body of get_trail_statistics up to the await of query_overpass.
StatisticsQuery(area_name, south, west, north, east) ==
    LET built ==
          IF area_name # None /\ area_name[1] # <<>>
          THEN BuildAreaQuery(area_name[1], None)
          ELSE IF \A coord \in {south, west, north, east} : coord # None
          THEN BuildBboxQuery(south[1], west[1], north[1], east[1], None)
          ELSE Ok(None)
    IN IF built.outcome = "raise"
       THEN ToolReturns(ExceptException(<<"Error getting trail statistics: ">>, built))
            /\ UNCHANGED issued
       ELSE IF built.value = None
       THEN ToolReturns(Ok(<<"Please provide either an area name or all four coordinates (south, west, north, east)">>))
            /\ UNCHANGED issued
       ELSE ToolAwaits(IF area_name # None /\ area_name[1] # <<>> THEN "area" ELSE "bbox",
                       built.value)

\* get_trail_statistics called with its parameters.
get_trail_statistics(area_name, south, west, north, east) ==
    /\ spc = "idle"
    /\ request' = [tool |-> "get_trail_statistics", area_name |-> area_name, south |-> south,
                   west |-> west, north |-> north, east |-> east]
    /\ StatisticsQuery(area_name, south, west, north, east)
    /\ UNCHANGED strategy
    /\ UNCHANGED clientVars

\* TrailMcpClient.get_trail_statistics: the arguments it sends to the tool.
StatisticsArguments(location, south, west, north, east) ==
    (IF location # None /\ location[1] # <<>> THEN "location" :> location ELSE <<>>)
    @@ (IF \A coord \in {south, west, north, east} : coord # None
        THEN [south |-> south, west |-> west, north |-> north, east |-> east]
        ELSE <<>>)

\* The parameters of the server's get_trail_statistics.
StatisticsParameters == {"area_name", "south", "west", "north", "east"}

\* What the tool framework does with an argument that names no parameter of
\* the tool function: its argument model ignores it, or refuses the call.
ExtraArguments == {"ignore", "forbid"}

\* The value a parameter is bound to: the argument of its name, or its
\* default None.
Bound(arguments, parameter) ==
    IF parameter \in DOMAIN arguments THEN arguments[parameter] ELSE None

\* TrailMcpClient.get_trail_statistics on a connected client, and the call of
\* the server tool it makes: with no arguments to send it returns its own
\* error text; otherwise the framework binds the arguments sent to the
\* parameters of the tool function and the function runs.
client_get_trail_statistics(location, south, west, north, east, extra) ==
    /\ spc = "idle"
    /\ LET arguments == StatisticsArguments(location, south, west, north, east)
       IN IF arguments = <<>>
          THEN /\ request' = [tool |-> "none", client |-> "get_trail_statistics", sent |-> arguments]
               /\ ToolReturns(Ok(<<"Error: Must provide either location or all coordinates">>))
               /\ UNCHANGED issued
          ELSE IF DOMAIN arguments \ StatisticsParameters # {} /\ extra = "forbid"
          THEN /\ request' = [tool |-> "none", client |-> "get_trail_statistics", sent |-> arguments]
               /\ ToolReturns(Ok(<<"Error executing tool get_trail_statistics: ",
                                   "unexpected keyword argument">>))
               /\ UNCHANGED issued
          ELSE /\ request' = [tool |-> "get_trail_statistics",
                              area_name |-> Bound(arguments, "area_name"),
                              south |-> Bound(arguments, "south"),
                              west |-> Bound(arguments, "west"),
                              north |-> Bound(arguments, "north"),
                              east |-> Bound(arguments, "east"),
                              client |-> "get_trail_statistics", sent |-> arguments]
               /\ StatisticsQuery(Bound(arguments, "area_name"), Bound(arguments, "south"),
                                  Bound(arguments, "west"), Bound(arguments, "north"),
                                  Bound(arguments, "east"))
    /\ UNCHANGED strategy
    /\ UNCHANGED clientVars

\* A strategy loop that lets an exception of the query leave the loop.
AfterStrategyRaiseLeaves(k, r) ==
    IF r.outcome = "raise"
    THEN [next |-> 0, result |-> r]
    ELSE LET got == GetElements(r.value, None)
         IN IF got.outcome = "return" /\ got.value # <<>>
               /\ FormatTrailData(r.value).outcome = "return"
            THEN [next |-> 0, result |-> FormatTrailData(r.value)]
            ELSE IF k < Len(SearchStrategies)
            THEN [next |-> k + 1, result |-> Awaited]
            ELSE [next |-> 0, result |-> Ok(AllStrategiesMissed)]

\* search_trails_by_area_name after the query of strategy k ended with r: the
\* strategy to go on with, or 0 and what the loop gives. Whatever the body of
\* the loop raises is caught there and the loop goes on.
AfterStrategy(k, r) ==
    LET got == IF r.outcome = "raise" THEN r ELSE GetElements(r.value, None)
    IN IF got.outcome = "return" /\ got.value # <<>>
          /\ FormatTrailData(r.value).outcome = "return"
       THEN [next |-> 0, result |-> FormatTrailData(r.value)]
       ELSE IF k < Len(SearchStrategies)
       THEN [next |-> k + 1, result |-> Awaited]
       ELSE [next |-> 0, result |-> Ok(AllStrategiesMissed)]

\* query_overpass ends (the backend did b) and the tool function runs on to
\* its next await or to its return.
query_overpass(b) ==
    /\ spc = "await_backend"
    /\ LET r == QueryOverpass(b)
           answered == Answered(issued, b, r)
       IN CASE request.tool = "search_trails_by_coordinates" ->
                 /\ ToolReturns(ExceptException(<<"Error searching trails: ">>,
                                                IF r.outcome = "raise" THEN r
                                                ELSE FormatTrailData(r.value)))
                 /\ issued' = answered
                 /\ UNCHANGED strategy
            [] request.tool = "get_trail_statistics" ->
                 /\ ToolReturns(ExceptException(<<"Error getting trail statistics: ">>,
                                                IF r.outcome = "raise" THEN r
                                                ELSE StatisticsReport(r.value)))
                 /\ issued' = answered
                 /\ UNCHANGED strategy
            [] request.tool = "search_trails_by_area_name" ->
                 LET after == AfterStrategy(strategy, r)
                 IN IF after.next = 0
                    THEN /\ ToolReturns(ExceptException(<<"Error searching trails: ">>, after.result))
                         /\ issued' = answered
                         /\ UNCHANGED strategy
                    ELSE /\ strategy' = after.next
                         /\ UNCHANGED <<spc, output>>
                         /\ issued' = Append(answered,
                               Issue(SearchStrategies[after.next].name,
                                     StrategyQuery(after.next, request.area_name,
                                                   ValidateTrailTypes(request.trail_types).value)))
    /\ UNCHANGED request
    /\ UNCHANGED clientVars

\* The caller has the outcome of its call; the server is ready for the next call.
tool_call_ends ==
    /\ spc = "returned"
    /\ spc' = "idle"
    /\ request' = [tool |-> "none"]
    /\ strategy' = 0
    /\ issued' = <<>>
    /\ output' = [outcome |-> "none"]
    /\ UNCHANGED clientVars


----------------------------------------------------------------------------
(* The functions of trail_mcp_server.py called on their own, as the tests  *)
(* of the repository call them                                             *)

MaxCategories == 3

\* The category lists a caller can pass: the lists without repetition of up
\* to MaxCategories of the three keys and an unknown one, and a list that
\* names a key twice.
CategoryKeys == {"hiking", "biking", "walking", "bogus"}
CategoryLists ==
    {l \in UNION {[1..n -> CategoryKeys] : n \in 0..MaxCategories} :
        \A i, j \in DOMAIN l : i # j => l[i] # l[j]}
    \cup {<<"hiking", "hiking">>}
OptCategoryLists == {None} \cup {Some(l) : l \in CategoryLists}

\* The corners the query builder is called with: the edges and the middle
\* of the ranges, in every arrangement (most of them are no box).
BoxLats == {-90, 0, 90}
BoxLons == {-180, 0, 180}

\* Area names as strings of characters, with blanks around and inside, with
\* quote characters and with backslashes.
LibraryAreaNames ==
    AreaNames \cup {<<"\t", " ">>, <<"P", " ", "k">>, <<"\"">>, <<"\"", "P", "\"", "\"">>,
                    <<" ", "\"", " ", "k", "\n">>, <<"P", "\\">>, <<"P", "\\", "\"", "k">>}

\* Tag mappings of an element: any of the four tags the classification reads,
\* each absent or with one of its values.
TagValues ==
    [route |-> {"hiking", "foot", "bicycle", "mtb", "walking", "ferry"},
     highway |-> {"cycleway", "footway", "pedestrian", "path", "track", "steps",
                  "bridleway", "residential"},
     bicycle |-> {"yes", "no"},
     foot |-> {"yes", "no"}]
OptTag(key) == {<<>>} \cup {key :> v : v \in TagValues[key]}
TagMappings ==
    {r @@ h @@ b @@ f :
        r \in OptTag("route"), h \in OptTag("highway"), b \in OptTag("bicycle"), f \in OptTag("foot")}

\* Documents for the formatter: n elements that classify (ways tagged as
\* paths, named by a number of their own) followed by m that do not.
Survey(n, m) ==
    [i \in 1..(n + m) |->
        IF i <= n
        THEN [type |-> "way", id |-> i, tags |-> [highway |-> "path", name |-> ToString(1000 + i)]]
        ELSE [type |-> "node", id |-> i]]
Surveys ==
    {JsonObject(<<>>), JsonObject([remark |-> "runtime error: Query timed out"]),
     JsonObject([elements |-> <<ElemBare, ElemRoute, ElemPath>>])}
    \cup {JsonObject([elements |-> Survey(n, m)]) :
            n \in {0, 1, max_trails_display - 1, max_trails_display,
                   max_trails_display + 1, max_trails_display + 3},
            m \in {0, 2}}

\* A function called on its own returns or raises at once: the call and its
\* outcome stay recorded until the caller has taken the outcome.
LibraryCall(call, outcome) ==
    /\ request' = call
    /\ output' = outcome
    /\ spc' = "returned"
    /\ UNCHANGED <<strategy, issued>>

build_bbox_query(south, west, north, east, trail_types) ==
    /\ spc = "idle"
    /\ LibraryCall([tool |-> "build_bbox_query", south |-> south, west |-> west,
                    north |-> north, east |-> east, trail_types |-> trail_types],
                   BuildBboxQuery(south, west, north, east, trail_types))
    /\ UNCHANGED clientVars

build_area_query(area_name, trail_types) ==
    /\ spc = "idle"
    /\ LibraryCall([tool |-> "build_area_query", area_name |-> area_name,
                    trail_types |-> trail_types],
                   BuildAreaQuery(area_name, trail_types))
    /\ UNCHANGED clientVars

validate_trail_types(trail_types) ==
    /\ spc = "idle"
    /\ LibraryCall([tool |-> "validate_trail_types", trail_types |-> trail_types],
                   ValidateTrailTypes(trail_types))
    /\ UNCHANGED clientVars

identify_trail_type(tags) ==
    /\ spc = "idle"
    /\ LibraryCall([tool |-> "identify_trail_type", tags |-> tags], Ok(IdentifyTrailType(tags)))
    /\ UNCHANGED clientVars

format_trail_data(data) ==
    /\ spc = "idle"
    /\ LibraryCall([tool |-> "format_trail_data", data |-> data], FormatTrailData(data))
    /\ UNCHANGED clientVars


----------------------------------------------------------------------------
(* chat_app.py *)

\* TrailExplorerChat.__init__, before main() has called start(); closed is the
\* set of objects whose session and pipes an aclose() has released.
NewChat == [at |-> "new", running |-> FALSE, closed |-> {}, exit |-> "none"]

----------------------------------------------------------------------------
(* Callers that overlap on one event loop *)

Tasks == {"A", "B"}

\* The query each of them asks.
TaskQuery == [A |-> "q1", B |-> "q2"]

\* A caller that is in no call: no object held, no locals.
IdleTask ==
    [at |-> "idle", inst |-> 0, got |-> [inst |-> 0], query |-> "none",
     conversation_history |-> <<>>, final_response |-> <<>>, text_chunks |-> <<>>,
     tool_calls |-> <<>>, idx |-> 0, rounds |-> 0, result |-> [outcome |-> "none"]]

Init ==
    /\ _instance = 0
    /\ objs = <<>>
    /\ connects = 0
    /\ listings = 0
    /\ lastOp = [op |-> "none", inst |-> 0, outcome |-> "none"]
    /\ pc = "idle"
    /\ self = 0
    /\ via = "none"
    /\ query = "none"
    /\ conversation_history = <<>>
    /\ final_response = <<>>
    /\ text_chunks = <<>>
    /\ tool_calls = <<>>
    /\ idx = 0
    /\ served = {}
    /\ engineCalls = 0
    /\ engineLog = <<>>
    /\ sentHistory = <<>>
    /\ sentTools = <<>>
    /\ gwTrace = <<>>
    /\ request = [tool |-> "none"]
    /\ spc = "idle"
    /\ strategy = 0
    /\ issued = <<>>
    /\ output = [outcome |-> "none"]
    /\ trailClient = NewClient
    /\ transport = "none"
    /\ cli = NewChat
    /\ tasks = [t \in Tasks |-> IdleTask]
    /\ taskLog = [t \in Tasks |-> <<>>]

Next ==
    \/ \E o \in ConnectOutcomes : get_connector(o)
    \/ \E o \in CloseOutcomes : cleanup(o)
    \/ \E c \in Created, q \in Queries : process_query(c, q)
    \/ \E q \in Queries, o \in ConnectOutcomes : process_user_query(q, o)
    \/ \E shape \in EngineShapes : call_model(shape)
    \/ \E e \in EngineErrors : call_model_raises(e)
    \/ call_tool_start
    \/ \E content \in ToolContents : call_tool_returns(content)
    \/ \E e \in ToolErrors : call_tool_raises(e)
    \/ process_query_ends
    \/ \E c \in Created, op \in DescribeOps : describe(c, op)
    \/ \E op \in DescribeOps, o \in ConnectOutcomes : describe_wrapper(op, o)
    \/ \E c \in Created, uri \in Uris, r \in RemoteResults : get_resource_data(c, uri, r)
    \/ \E c \in Created, name \in PromptNames, r \in PromptResults : get_prompt_data(c, name, r)

Spec == Init /\ [][Next]_vars

\* The awaits of one process_query call are answered or fail, and the
\* coroutine is resumed: no step of a call in flight is postponed for ever.
QueryStep ==
    \/ \E shape \in EngineShapes : call_model(shape)
    \/ \E e \in EngineErrors : call_model_raises(e)
    \/ call_tool_start
    \/ \E content \in ToolContents : call_tool_returns(content)
    \/ \E e \in ToolErrors : call_tool_raises(e)

FairSpec == Init /\ [][Next]_vars /\ WF_vars(QueryStep)

\* The tool server: one tool call at a time, against any backend.
ServerNext ==
    \/ \E south \in Lats, west \in Lons, north \in Lats, east \in Lons, trail_types \in TrailTypeArgs :
          search_trails_by_coordinates(south, west, north, east, trail_types)
    \/ \E area_name \in AreaNames, trail_types \in TrailTypeArgs :
          search_trails_by_area_name(area_name, trail_types)
    \/ \E a \in StatisticsArgs :
          get_trail_statistics(a.area_name, a.south, a.west, a.north, a.east)
    \/ \E a \in StatisticsArgs, extra \in ExtraArguments :
          client_get_trail_statistics(a.area_name, a.south, a.west, a.north, a.east, extra)
    \/ \E b \in BackendBehaviours : query_overpass(b)
    \/ tool_call_ends

ServerSpec == Init /\ [][ServerNext]_vars

\* The functions of the server module, each called with any arguments.
LibraryNext ==
    \/ \E south \in BoxLats, west \in BoxLons, north \in BoxLats, east \in BoxLons,
             trail_types \in OptCategoryLists :
          build_bbox_query(south, west, north, east, trail_types)
    \/ \E area_name \in LibraryAreaNames, trail_types \in OptCategoryLists :
          build_area_query(area_name, trail_types)
    \/ \E trail_types \in OptCategoryLists : validate_trail_types(trail_types)
    \/ \E tags \in TagMappings : identify_trail_type(tags)
    \/ \E data \in Surveys : format_trail_data(data)
    \/ tool_call_ends

LibrarySpec == Init /\ [][LibraryNext]_vars

----------------------------------------------------------------------------
(* TrailMcpClient used on its own: connect, disconnect and the requests *)

\* What a request raises on a session whose pipes have been closed.
ClosedSessionErrors == {"e_closed"}

\* A request awaited on self.session: what the server gives while the
\* transport is open, an error of the closed session once it is not.
OnSession(result, closedError) ==
    IF transport = "open" THEN result ELSE [raised |-> TRUE, error |-> closedError]

\* The variables no operation of the lone client touches.
besideClient == <<serverVars, _instance, objs, listings, served, queryVars, cli, tasks, taskLog>>

\* TrailMcpClient.connect
client_connect(o) ==
    /\ connects < MaxConnects
    /\ connects' = connects + 1
    /\ LET r == ClientConnect(trailClient, o)
       IN /\ trailClient' = r.client
          /\ transport' = IF o = "spawn_fail" THEN transport ELSE "open"
          /\ lastOp' = IF r.raised THEN Raised("connect", 0, o)
                       ELSE Returned("connect", 0, "True")
    /\ UNCHANGED besideClient

\* TrailMcpClient.disconnect: aclose() if there is a session; neither
\* self.session nor self.capabilities is assigned.
client_disconnect(o) ==
    /\ IF ~trailClient.session
       THEN /\ UNCHANGED transport
            /\ lastOp' = Returned("disconnect", 0, "None")
       ELSE /\ transport' = "closed"
            /\ lastOp' = IF o = "raise" THEN Raised("disconnect", 0, "aclose failed")
                         ELSE Returned("disconnect", 0, "None")
    /\ UNCHANGED <<trailClient, connects>>
    /\ UNCHANGED besideClient

\* TrailMcpClient.list_tools
client_list_tools(r, closedError) ==
    /\ lastOp' =
         IF ~trailClient.session THEN Raised("list_tools", 0, "Not connected to server")
         ELSE IF trailClient.capabilities.loaded
         THEN Returned("list_tools", 0, trailClient.capabilities.tools)
         ELSE IF OnSession(r, closedError).raised
         THEN Raised("list_tools", 0, OnSession(r, closedError).error)
         ELSE Returned("list_tools", 0, ServerTools)
    /\ UNCHANGED <<trailClient, transport, connects>>
    /\ UNCHANGED besideClient

\* TrailMcpClient.call_tool
client_call_tool(r, closedError) ==
    /\ lastOp' =
         IF ~trailClient.session THEN Raised("call_tool", 0, "Not connected to server")
         ELSE IF OnSession(r, closedError).raised
         THEN Raised("call_tool", 0, OnSession(r, closedError).error)
         ELSE Returned("call_tool", 0, ExtractToolText(r.content))
    /\ UNCHANGED <<trailClient, transport, connects>>
    /\ UNCHANGED besideClient

\* TrailMcpClient.read_resource
client_read_resource(uri, r, closedError) ==
    /\ lastOp' =
         IF ~trailClient.session THEN Raised("read_resource", 0, "Not connected to server")
         ELSE IF OnSession(r, closedError).raised
         THEN Raised("read_resource", 0, OnSession(r, closedError).error)
         ELSE Returned("read_resource", 0, ResourceText(r.content))
    /\ UNCHANGED <<trailClient, transport, connects>>
    /\ UNCHANGED besideClient

\* TrailMcpClient.get_prompt
client_get_prompt(name, r, closedError) ==
    /\ lastOp' =
         IF ~trailClient.session THEN Raised("get_prompt", 0, "Not connected to server")
         ELSE IF OnSession(r, closedError).raised
         THEN Raised("get_prompt", 0, OnSession(r, closedError).error)
         ELSE IF r.description # <<>>
         THEN Returned("get_prompt", 0, r.description)
         ELSE Returned("get_prompt", 0, <<"Prompt: ", name>>)
    /\ UNCHANGED <<trailClient, transport, connects>>
    /\ UNCHANGED besideClient

\* One caller that awaits every operation of its client.
ClientNext ==
    \/ \E o \in ConnectOutcomes : client_connect(o)
    \/ \E o \in CloseOutcomes : client_disconnect(o)
    \/ \E r \in RemoteResults, closedError \in ClosedSessionErrors :
          client_list_tools(r, closedError)
    \/ \E r \in RemoteResults, closedError \in ClosedSessionErrors :
          client_call_tool(r, closedError)
    \/ \E uri \in Uris, r \in RemoteResults, closedError \in ClosedSessionErrors :
          client_read_resource(uri, r, closedError)
    \/ \E name \in PromptNames, r \in PromptResults, closedError \in ClosedSessionErrors :
          client_get_prompt(name, r, closedError)

ClientSpec == Init /\ [][ClientNext]_vars

----------------------------------------------------------------------------
(* chat_app.py: main() and the loop of TrailExplorerChat.start() *)

QuitCommands == {"quit", "exit", "q"}

\* The inputs the loop handles without calling the connector: an empty line,
\* help, clear; and an EOFError of input(), which the loop's
\* 'except Exception' reports before the loop goes on.
LocalInputs == {"", "help", "clear", "EOFError"}

\* How an interrupt reaches the coroutine: as KeyboardInterrupt raised inside
\* the try block of the loop, or as the cancellation of the main task, raised
\* at the await the coroutine is suspended in.
Interrupts == {"KeyboardInterrupt", "CancelledError"}

\* LlmMcpConnector.cleanup as a function of the state and of how aclose()
\* ends: the slot and the objects after it, whether it raised, and the
\* objects whose exit stack was closed.
CleanupResult(o) ==
    IF _instance = 0
    THEN [inst |-> 0, objs |-> objs, raised |-> FALSE, closed |-> {}]
    ELSE IF objs[_instance].is_connected /\ objs[_instance].mcp_client.session
    THEN IF o = "raise"
         THEN [inst |-> _instance, objs |-> objs, raised |-> TRUE, closed |-> {_instance}]
         ELSE [inst |-> 0, objs |-> [objs EXCEPT ![_instance].is_connected = FALSE],
               raised |-> FALSE, closed |-> {_instance}]
    ELSE [inst |-> 0, objs |-> [objs EXCEPT ![_instance].is_connected = FALSE],
          raised |-> FALSE, closed |-> {}]

besideChat == <<serverVars, trailClient, transport, tasks, taskLog>>

\* main() up to the loop: chat.start() sets running and reaches input().
chat_start ==
    /\ cli.at = "new"
    /\ cli' = [cli EXCEPT !.at = "input", !.running = TRUE]
    /\ UNCHANGED <<facadeVars, queryVars, lastOp>>
    /\ UNCHANGED besideChat

\* An input the loop deals with on its own.
chat_reads_local(input) ==
    /\ cli.at = "input"
    /\ NoCallInFlight
    /\ UNCHANGED vars

\* tools, resources, prompts, info: the wrapper of a describe operation.
chat_shows(op, o) ==
    /\ cli.at = "input"
    /\ describe_wrapper(op, o)

\* Any other input: process_user_query, awaited.
chat_asks(q, o) ==
    /\ cli.at = "input"
    /\ process_user_query(q, o)

\* quit, exit, q: quit() clears running, break leaves the loop, start()
\* returns and main() is at its finally clause.
chat_quits(input) ==
    /\ cli.at = "input"
    /\ NoCallInFlight
    /\ cli' = [cli EXCEPT !.at = "finally", !.running = FALSE, !.exit = "return 0"]
    /\ UNCHANGED <<facadeVars, queryVars, lastOp>>
    /\ UNCHANGED besideChat

\* An interrupt. KeyboardInterrupt is caught by the loop (quit(), break); a
\* cancellation is caught by nothing and leaves start() with running still
\* set. Either way the call that was awaited is abandoned and main() is at
\* its finally clause.
chat_interrupted(kind) ==
    /\ cli.at = "input"
    /\ kind = "CancelledError" => ~NoCallInFlight
    /\ cli' = [cli EXCEPT !.at = "finally",
                          !.running = IF kind = "KeyboardInterrupt" THEN FALSE ELSE @,
                          !.exit = IF kind = "KeyboardInterrupt" THEN "return 0" ELSE kind]
    /\ DropFrame
    /\ UNCHANGED <<facadeVars, lastOp>>
    /\ UNCHANGED besideChat

\* An exception that leaves start(): one raised by the print() before the
\* loop, or by the print() of the loop's own 'except Exception' branch.
\* main() reports it as fatal and is at its finally clause.
chat_fatal ==
    /\ cli.at \in {"new", "input"}
    /\ NoCallInFlight
    /\ cli' = [cli EXCEPT !.at = "finally", !.exit = "return 1"]
    /\ UNCHANGED <<facadeVars, queryVars, lastOp>>
    /\ UNCHANGED besideChat

\* The finally clause of main(): cleanup_integration(); an exception of it
\* replaces the way main() was about to end.
chat_cleanup(o) ==
    /\ cli.at = "finally"
    /\ LET r == CleanupResult(o)
       IN /\ _instance' = r.inst
          /\ objs' = r.objs
          /\ cli' = [cli EXCEPT !.at = "exited",
                                !.closed = @ \cup r.closed,
                                !.exit = IF r.raised THEN "aclose failed" ELSE @]
          /\ lastOp' = IF r.raised THEN Raised("cleanup", _instance, "aclose failed")
                       ELSE Returned("cleanup", _instance, "None")
    /\ UNCHANGED <<connects, listings, served, queryVars>>
    /\ UNCHANGED besideChat

\* One run of the chat application.
ChatNext ==
    \/ chat_start
    \/ \E input \in LocalInputs : chat_reads_local(input)
    \/ \E op \in DescribeOps, o \in ConnectOutcomes : chat_shows(op, o)
    \/ \E q \in Queries, o \in ConnectOutcomes : chat_asks(q, o)
    \/ \E input \in QuitCommands : chat_quits(input)
    \/ \E kind \in Interrupts : chat_interrupted(kind)
    \/ chat_fatal
    \/ \E o \in CloseOutcomes : chat_cleanup(o)
    \/ \E shape \in EngineShapes : call_model(shape)
    \/ \E e \in EngineErrors : call_model_raises(e)
    \/ call_tool_start
    \/ \E content \in ToolContents : call_tool_returns(content)
    \/ \E e \in ToolErrors : call_tool_raises(e)
    \/ process_query_ends

ChatSpec == Init /\ [][ChatNext]_vars

----------------------------------------------------------------------------
(* Callers that overlap: get_connector and process_query as coroutines *)

\* The responses the engine gives to overlapping callers: text only, or two
\* tool requests around a text.
TaskShapes ==
    { <<TextBlock("a")>>,
      <<ToolUseShape("search_trails_by_area_name"), TextBlock("b"),
        ToolUseShape("get_trail_statistics")>> }

\* What a remote tool call gives to one of them when it returns.
TaskContents == { <<[type |-> "text", text |-> <<"r1">>]>> }

\* The ids the engine stamps are unique over all calls: the caller is part
\* of the id.
StampFor(t, shape, round) ==
    [i \in 1..Len(shape) |->
        IF shape[i].type = "tool_use"
        THEN [Stamp(shape, round)[i] EXCEPT !.id = <<t>> \o @]
        ELSE shape[i]]

\* What 'return cls._instance' hands to the caller, as the caller sees it at
\* that moment; connecting tells whether the connect() of that object is
\* still awaited by some caller.
Handout(inst, os, connecting) ==
    [inst |-> inst, is_connected |-> os[inst].is_connected,
     available_tools |-> os[inst].available_tools, connecting |-> connecting]

besideTasks == <<serverVars, lastOp, queryVars, trailClient, transport, cli>>

\* get_connector up to its await: with the slot empty the object is created
\* and stored in the slot and connect() is awaited; otherwise the object in
\* the slot is returned at once.
task_get_connector(t) ==
    /\ tasks[t].at = "idle"
    /\ IF _instance = 0
       THEN /\ LastId < MaxInstances
            /\ _instance' = LastId + 1
            /\ objs' = (LastId + 1) :> NewConnector
            /\ tasks' = [tasks EXCEPT ![t].at = "connecting", ![t].inst = LastId + 1]
       ELSE /\ tasks' = [tasks EXCEPT
                           ![t].at = "holding",
                           ![t].inst = _instance,
                           ![t].got = Handout(_instance, objs,
                                              \E u \in Tasks : /\ tasks[u].at = "connecting"
                                                               /\ tasks[u].inst = _instance)]
            /\ UNCHANGED <<_instance, objs>>
    /\ UNCHANGED <<connects, listings, served, taskLog>>
    /\ UNCHANGED besideTasks

\* The connect() awaited by get_connector ends, and get_connector returns
\* the object in the slot.
task_connect_ends(t, o) ==
    /\ tasks[t].at = "connecting"
    /\ LET os == [objs EXCEPT ![tasks[t].inst] = Connect(@, o)]
       IN /\ objs' = os
          /\ tasks' = [tasks EXCEPT ![t].at = "holding",
                                    ![t].got = Handout(_instance, os, FALSE)]
    /\ connects' = connects + 1
    /\ listings' = IF o = "ok" THEN listings + 1 ELSE listings
    /\ UNCHANGED <<_instance, served, taskLog>>
    /\ UNCHANGED besideTasks

\* process_query on the object the caller holds, up to its first engine call.
task_process_query(t) ==
    /\ tasks[t].at = "holding"
    /\ LET obj == objs[tasks[t].inst]
       IN IF ~obj.is_connected
          THEN /\ tasks' = [tasks EXCEPT ![t].at = "finished",
                                         ![t].result = [outcome |-> "raise", error |-> NotConnectedMsg]]
               /\ UNCHANGED served
          ELSE /\ tasks' = [tasks EXCEPT
                              ![t].at = "call_model",
                              ![t].query = TaskQuery[t],
                              ![t].conversation_history = InitialHistory(obj, TaskQuery[t]),
                              ![t].final_response = <<>>,
                              ![t].text_chunks = <<>>,
                              ![t].tool_calls = <<>>,
                              ![t].idx = 0,
                              ![t].rounds = 0]
               /\ served' = served \cup {TaskQuery[t]}
    /\ taskLog' = [taskLog EXCEPT ![t] = <<>>]
    /\ UNCHANGED <<_instance, objs, connects, listings>>
    /\ UNCHANGED besideTasks

\* One engine call of caller t that answers. The call does not suspend the
\* coroutine in the code; the model lets the callers switch here as well as
\* at the tool calls.
task_call_model(t, shape) ==
    /\ tasks[t].at = "call_model"
    /\ tasks[t].rounds < MaxTaskRounds
    /\ LET f == tasks[t]
           content == StampFor(t, shape, f.rounds + 1)
           calls == ToolCallsOf(content)
           chunks == TextChunksOf(content)
       IN /\ taskLog' = [taskLog EXCEPT ![t] =
                            Append(@, [ev |-> "engine", sent |-> f.conversation_history,
                                       response |-> content])]
          /\ tasks' = [tasks EXCEPT ![t] =
                [f EXCEPT
                   !.conversation_history = Append(@, AssistantTurn(content)),
                   !.tool_calls = calls,
                   !.text_chunks = chunks,
                   !.rounds = @ + 1,
                   !.idx = IF calls # <<>> THEN 1 ELSE 0,
                   !.at = IF calls # <<>> THEN "await_tool" ELSE "finished",
                   !.final_response = IF calls # <<>> THEN FinalAfterToolRound(@, chunks)
                                      ELSE FinalAfterTextRound(@, chunks),
                   !.result = IF calls # <<>> THEN @
                              ELSE [outcome |-> "return",
                                    value |-> ReturnValue(FinalAfterTextRound(f.final_response, chunks))]]]
    /\ UNCHANGED facadeVars
    /\ UNCHANGED besideTasks

\* One engine call of caller t that raises.
task_call_model_raises(t, e) ==
    /\ tasks[t].at = "call_model"
    /\ tasks[t].rounds < MaxTaskRounds
    /\ taskLog' = [taskLog EXCEPT ![t] =
                      Append(@, [ev |-> "engine_raised", sent |-> tasks[t].conversation_history])]
    /\ tasks' = [tasks EXCEPT ![t].at = "finished", ![t].rounds = @ + 1,
                              ![t].result = [outcome |-> "raise", error |-> e]]
    /\ UNCHANGED facadeVars
    /\ UNCHANGED besideTasks

\* Where the coroutine is after the invocation at position i: at the await
\* of the next one, or at the next engine call.
AfterAwait(i, calls) ==
    IF AfterInvocation(i, calls) = "call_tool" THEN "await_tool" ELSE "call_model"

\* The remote call awaited by caller t returns: the tool-result turn.
task_tool_returns(t, content) ==
    /\ tasks[t].at = "await_tool"
    /\ LET f == tasks[t]
           tc == f.tool_calls[f.idx]
       IN /\ taskLog' = [taskLog EXCEPT ![t] =
                            Append(@, [ev |-> "tool", id |-> tc.id, content |-> content])]
          /\ tasks' = [tasks EXCEPT ![t] =
                [f EXCEPT
                   !.conversation_history =
                       Append(@, ToolResultTurn(tc.id, ExtractToolText(content))),
                   !.idx = @ + 1,
                   !.at = AfterAwait(f.idx, f.tool_calls)]]
    /\ UNCHANGED facadeVars
    /\ UNCHANGED besideTasks

\* The remote call awaited by caller t raises: the except branch.
task_tool_raises(t, e) ==
    /\ tasks[t].at = "await_tool"
    /\ LET f == tasks[t]
           tc == f.tool_calls[f.idx]
       IN /\ taskLog' = [taskLog EXCEPT ![t] = Append(@, [ev |-> "tool_raised", id |-> tc.id])]
          /\ tasks' = [tasks EXCEPT ![t] =
                [f EXCEPT
                   !.text_chunks = Append(@, ErrorChunk(tc.name, e)),
                   !.idx = @ + 1,
                   !.at = AfterAwait(f.idx, f.tool_calls)]]
    /\ UNCHANGED facadeVars
    /\ UNCHANGED besideTasks

\* The caller has the outcome of its process_query: the locals are gone.
task_ends(t) ==
    /\ tasks[t].at = "finished"
    /\ tasks' = [tasks EXCEPT ![t] = IdleTask]
    /\ taskLog' = [taskLog EXCEPT ![t] = <<>>]
    /\ UNCHANGED facadeVars
    /\ UNCHANGED besideTasks

\* Two callers on one event loop, each awaiting get_connector and then
\* process_query, again and again.
TaskNext ==
    \/ \E t \in Tasks : task_get_connector(t)
    \/ \E t \in Tasks, o \in ConnectOutcomes : task_connect_ends(t, o)
    \/ \E t \in Tasks : task_process_query(t)
    \/ \E t \in Tasks, shape \in TaskShapes : task_call_model(t, shape)
    \/ \E t \in Tasks, e \in EngineErrors : task_call_model_raises(t, e)
    \/ \E t \in Tasks, content \in TaskContents : task_tool_returns(t, content)
    \/ \E t \in Tasks, e \in ToolErrors : task_tool_raises(t, e)
    \/ \E t \in Tasks : task_ends(t)

TaskSpec == Init /\ [][TaskNext]_vars

----------------------------------------------------------------------------
(* Properties *)

\* The tool requests and the text segments of a response, read off the
\* engine's own record of what it emitted.
Requested(content) == SelectSeq(content, LAMBDA c : c.type = "tool_use")

RECURSIVE EmittedText(_)
EmittedText(content) ==
    IF content = <<>> THEN <<>>
    ELSE IF Head(content).type = "text"
         THEN <<Head(content).text>> \o EmittedText(Tail(content))
         ELSE EmittedText(Tail(content))

InLoop == pc \in {"call_tool", "await_tool"}

\* The gateway events of round r, as (id, start/end) pairs.
EventsOf(r) ==
    LET ev == SelectSeq(gwTrace, LAMBDA e : e.round = r)
    IN [i \in 1..Len(ev) |-> <<ev[i].id, ev[i].ev>>]

\* The events a round gives when its requests are invoked one after the other.
ExpectedEvents(r) ==
    LET req == Requested(engineLog[r])
    IN [k \in 1..(2 * Len(req)) |->
          <<req[(k + 1) \div 2].id, IF k % 2 = 1 THEN "start" ELSE "end">>]

IsPrefix(a, b) == Len(a) <= Len(b) /\ \A i \in 1..Len(a) : a[i] = b[i]

RoundOver(r) == r < Len(engineLog) \/ (r = Len(engineLog) /\ ~InLoop)

\* C1: in every round the gateway sees the invocations in the order the engine
\* emitted the requests, each started only after the one before has ended, and
\* the loop is left (for the next engine call) only when all have ended.
C1_InOrderOneAtATime ==
    /\ \A r \in 1..Len(engineLog) :
          /\ IsPrefix(EventsOf(r), ExpectedEvents(r))
          /\ RoundOver(r) => EventsOf(r) = ExpectedEvents(r)
    /\ \A i \in 1..Len(gwTrace) : \A j \in i..Len(gwTrace) : gwTrace[i].round <= gwTrace[j].round
    /\ engineCalls > Len(engineLog) => ~InLoop

C1_Witness ==
    /\ Len(engineLog) = 2
    /\ Len(Requested(engineLog[1])) = 2
    /\ \E i \in 1..Len(gwTrace) : gwTrace[i].ev = "end" /\ gwTrace[i].outcome = "e_tool"

IsToolResultFor(turn, id) ==
    /\ turn.role = "user"
    /\ DOMAIN turn.content = {"blocks"}
    /\ \E i \in 1..Len(turn.content.blocks) :
          /\ turn.content.blocks[i].type = "tool_result"
          /\ turn.content.blocks[i].tool_use_id = id

ResultTurnsFor(history, id) == {i \in 1..Len(history) : IsToolResultFor(history[i], id)}

\* C2: when the engine is called again after a round with tool requests, the
\* history it receives holds exactly one tool-result turn for every request of
\* that round, whatever the invocation gave.
C2_OneResultTurnPerRequest ==
    engineCalls >= 2 =>
        \A i \in 1..Len(Requested(engineLog[engineCalls - 1])) :
            Cardinality(ResultTurnsFor(sentHistory,
                                       Requested(engineLog[engineCalls - 1])[i].id)) = 1

FailedEvents == {i \in 1..Len(gwTrace) : gwTrace[i].ev = "end" /\ gwTrace[i].outcome # "returned"}

StartedIds(r) == {gwTrace[i].id : i \in {j \in 1..Len(gwTrace) : gwTrace[j].round = r /\ gwTrace[j].ev = "start"}}

\* C3: an invocation that raises does not make process_query raise (only a
\* later engine call can), leaves a diagnostic with the tool name and the
\* error text in the round's text chunks, does not keep the later invocations
\* of the round from being made, and the round is followed by an engine call,
\* not by the return.
C3_ToolFailureIsContained ==
    \A i \in FailedEvents :
        LET e == gwTrace[i]
        IN /\ pc = "raised" => engineCalls > Len(engineLog) /\ engineCalls > e.round
           /\ pc = "done" => e.round < Len(engineLog)
           /\ e.round = Len(engineLog) /\ engineCalls = Len(engineLog) =>
                 \E k \in 1..Len(text_chunks) :
                     /\ Contains(text_chunks[k], e.name)
                     /\ Contains(text_chunks[k], e.outcome)
           /\ RoundOver(e.round) =>
                 \A k \in 1..Len(Requested(engineLog[e.round])) :
                     Requested(engineLog[e.round])[k].id \in StartedIds(e.round)

C3_Witness ==
    /\ Len(engineLog) = 2
    /\ \E i \in FailedEvents :
          /\ gwTrace[i].round = 1
          /\ gwTrace[i].id = Requested(engineLog[1])[1].id
          /\ Len(Requested(engineLog[1])) = 2

\* C4: when process_query returns, the text it returns holds the diagnostic of
\* every invocation that raised.
C4_NoFailureDropped ==
    pc = "done" =>
        \A i \in FailedEvents :
            /\ Contains(lastOp.value, gwTrace[i].name)
            /\ Contains(lastOp.value, gwTrace[i].outcome)

\* C5: the value returned is the text segments of the last round (the one
\* without tool requests), in order, separated by newlines, and nothing else.
C5_ReturnsTerminalRoundText ==
    pc = "done" =>
        /\ lastOp.outcome = "return"
        /\ Requested(engineLog[Len(engineLog)]) = <<>>
        /\ lastOp.value = JoinWith(<<"\n">>, EmittedText(engineLog[Len(engineLog)]))

C5_Witness ==
    /\ pc = "done"
    /\ Len(engineLog) = 2
    /\ EmittedText(engineLog[1]) # <<>>
    /\ Len(EmittedText(engineLog[2])) = 2

ToolRounds == {r \in 1..Len(engineLog) : Requested(engineLog[r]) # <<>>}

RECURSIVE AllRequestIds(_)
AllRequestIds(log) ==
    IF log = <<>> THEN <<>>
    ELSE [i \in 1..Len(Requested(Head(log))) |-> Requested(Head(log))[i].id]
         \o AllRequestIds(Tail(log))

GatewayStarts ==
    LET st == SelectSeq(gwTrace, LAMBDA e : e.ev = "start")
    IN [i \in 1..Len(st) |-> st[i].id]

RoundsExhausted == pc = "call_model" /\ engineCalls = MaxRounds

\* C6: a query whose engine emits k rounds with tool requests and then one
\* without ends in Done after exactly k+1 engine calls and one gateway call per
\* request, in the order requested; and a call in flight always goes on until
\* it has ended (or the rounds explored are used up).
C6_CallsAtDone ==
    pc = "done" =>
        /\ ToolRounds = 1..(Len(engineLog) - 1)
        /\ engineCalls = Cardinality(ToolRounds) + 1
        /\ GatewayStarts = AllRequestIds(engineLog)

C6_Terminates ==
    /\ []C6_CallsAtDone
    /\ (pc \in {"call_model", "call_tool", "await_tool"})
          ~> (pc \in {"done", "raised"} \/ RoundsExhausted)

C6_Witness ==
    /\ pc = "done"
    /\ Cardinality(ToolRounds) = 1
    /\ Len(GatewayStarts) = 1

\* C7: the first engine call of every query receives one user turn, made of
\* the system preamble and this query's text, and nothing of a query processed
\* before on the same object.
C7_FreshHistoryPerQuery ==
    engineCalls = 1 =>
        /\ Len(sentHistory) = 1
        /\ sentHistory[1].role = "user"
        /\ sentHistory[1].content =
              [str |-> CreateSystemPrompt(objs[self]) \o <<"\n\nUser Query: ", query>>]
        /\ \A q \in served \ {query} : ~Contains(sentHistory[1].content.str, q)

C7_Witness ==
    /\ engineCalls = 1
    /\ served = Queries

FacadeOps ==
    {"process_query", "get_resource_data", "get_prompt_data"} \cup DescribeOps

WrapperOps ==
    {"process_user_query", "get_available_tools", "get_available_resources",
     "get_available_prompts", "get_server_info_wrapper"}

\* A failure that tells the caller the facade is not connected: the exception,
\* or a returned text that carries its message.
NotConnectedFailure(r) ==
    \/ r.outcome = "raise" /\ r.error = NotConnectedMsg
    \/ r.outcome = "return" /\ r.value = NotConnectedInfo
    \/ r.outcome = "return" /\ Contains(r.value, NotConnectedMsg)

\* C8: an operation of the facade that is invoked on an object that is not
\* connected, or a module-level wrapper that is invoked while the slot holds
\* such an object or has been emptied by cleanup, fails with the not-connected
\* error and attempts no connection.
C8_FailClosed ==
    [][ /\ NoCallInFlight
        /\ lastOp' # lastOp
        /\ \/ lastOp'.op \in FacadeOps /\ ~objs[lastOp'.inst].is_connected
           \/ /\ lastOp'.op \in WrapperOps
              /\ Created # {}
              /\ (_instance = 0 \/ ~objs[_instance].is_connected)
        => NotConnectedFailure(lastOp') /\ connects' = connects ]_vars

\* C9: get_connector called while the slot holds an object returns that
\* object and neither connects nor lists again.
C9_SecondGetConnectorReuses ==
    [][ _instance # 0 /\ lastOp'.op = "get_connector"
        => /\ lastOp'.value = _instance
           /\ UNCHANGED <<_instance, objs, connects, listings>> ]_vars

C9_Witness ==
    /\ lastOp.op = "get_connector"
    /\ ~lastOp.created
    /\ connects = 1
    /\ listings = 1

\* C10: once cleanup has been called with an object in the slot, the slot is
\* empty, however the teardown ended; and get_connector on an empty slot
\* creates a new object, connects it and lists the manifest for it.
C10_CleanupEmptiesSlot ==
    /\ [](lastOp.op = "cleanup" /\ lastOp.inst # 0 => _instance = 0)
    /\ [][ _instance = 0 /\ lastOp'.op = "get_connector"
           => /\ lastOp'.value \notin DOMAIN objs
              /\ _instance' = lastOp'.value
              /\ connects' = connects + 1 ]_vars

\* C11: after get_connector has completed, the slot is empty or holds an object
\* that is connected and has its manifest loaded; a connection that failed is
\* reported to the caller of get_connector as a failure.
C11_SlotNeverHoldsFailedInstance ==
    /\ _instance # 0 =>
          /\ objs[_instance].is_connected
          /\ objs[_instance].mcp_client.capabilities.loaded
          /\ objs[_instance].available_tools # <<>>
    /\ lastOp.op = "get_connector" /\ lastOp.attempt \notin {"ok", "none"} =>
          lastOp.outcome = "raise"

ListingFailures == {"tools_fail", "resources_fail", "prompts_fail"}

ManifestUnset(obj) ==
    /\ obj.mcp_client.capabilities = [loaded |-> FALSE]
    /\ obj.available_tools = <<>>
    /\ obj.available_resources = <<>>
    /\ obj.available_prompts = <<>>
    /\ ~obj.is_connected

ManifestWhole(obj) ==
    /\ obj.mcp_client.capabilities.loaded
    /\ obj.mcp_client.capabilities.tools = ServerTools
    /\ obj.mcp_client.capabilities.resources = ServerResources
    /\ obj.mcp_client.capabilities.prompts = ServerPrompts
    /\ [i \in 1..Len(obj.available_tools) |-> obj.available_tools[i].name]
          = [i \in 1..Len(ServerTools) |-> ServerTools[i].name]
    /\ [i \in 1..Len(obj.available_resources) |-> obj.available_resources[i].uri]
          = [i \in 1..Len(ServerResources) |-> ServerResources[i].uri]
    /\ [i \in 1..Len(obj.available_prompts) |-> obj.available_prompts[i].name]
          = [i \in 1..Len(ServerPrompts) |-> ServerPrompts[i].name]

\* C12: a connect in which one of the three listings fails leaves the client's
\* capabilities, the three collections of the connector and the connected flag
\* as they were (unset), and reports one failure; in every state the
\* collections of an object are all unset or all from one complete load.
C12_ManifestAllOrNothing ==
    /\ \A c \in Created : ManifestUnset(objs[c]) \/ ManifestWhole(objs[c])
    /\ lastOp.op = "get_connector" /\ lastOp.attempt \in ListingFailures =>
          /\ ManifestUnset(objs[lastOp.inst])
          /\ connects > listings
    /\ \A o \in ListingFailures :
          /\ ClientConnect(NewClient, o).raised
          /\ ClientConnect(NewClient, o).client.capabilities = NewClient.capabilities
          /\ Connect(NewConnector, o) =
                [NewConnector EXCEPT !.mcp_client = ClientConnect(NewClient, o).client]

C12_Witness ==
    /\ lastOp.op = "get_connector"
    /\ lastOp.attempt = "resources_fail"
    /\ objs[lastOp.inst].mcp_client.session

\* The names of the tools in the manifest the client of the running call holds.
ManifestToolNames ==
    {objs[self].mcp_client.capabilities.tools[i].name :
        i \in 1..Len(objs[self].mcp_client.capabilities.tools)}

\* C17: a call of call_tool for a name that is not in the loaded manifest is
\* not sent to the server and ends with a tool-not-found error, which is not
\* the error of a remote failure.
C17_UnknownToolIsNotFound ==
    \A i \in 1..Len(gwTrace) :
        gwTrace[i].name \notin ManifestToolNames =>
            /\ gwTrace[i].ev = "end"
            /\ gwTrace[i].outcome = "ToolNotFoundError"
            /\ gwTrace[i].outcome \notin ToolErrors

EmptyResultTurn(id) ==
    [role |-> "user",
     content |-> [blocks |-> <<[type |-> "tool_result", tool_use_id |-> id,
                                content |-> <<"No content returned from tool">>]>>]]

\* C18: when the remote call of a tool request returns a result without
\* content, nothing is raised: the history gets the tool-result turn of the
\* request with the text "No content returned from tool", no diagnostic is
\* added, the caller is not answered yet, and the loop goes on to the next
\* request or, after the last one, to the next engine call.
C18_EmptyResultIsOrdinary ==
    [][ pc = "await_tool" /\ call_tool_returns(<<>>) =>
          /\ conversation_history' = Append(conversation_history, EmptyResultTurn(tool_calls[idx].id))
          /\ gwTrace'[Len(gwTrace')].outcome = "returned"
          /\ text_chunks' = text_chunks
          /\ lastOp' = lastOp
          /\ pc' = IF idx < Len(tool_calls) THEN "call_tool" ELSE "call_model" ]_vars

C18_Witness ==
    /\ pc = "done"
    /\ engineCalls = 2
    /\ \E i \in 1..Len(conversation_history) :
          \E id \in {<<1, 1>>, <<1, 3>>} : conversation_history[i] = EmptyResultTurn(id)

----------------------------------------------------------------------------
(* Properties of the tool server (checked under ServerSpec) *)

AreaCall == request.tool = "search_trails_by_area_name"

\* What a completed backend query gave, read off the backend's own record.
Raise(q) == q.result.outcome = "raise"

Yielded(q) ==
    /\ q.result.outcome = "return"
    /\ q.result.value.kind = "object"
    /\ "elements" \in DOMAIN q.result.value.members
    /\ q.result.value.members.elements # <<>>

Missed(q) == q.result.outcome # "pending" /\ ~Yielded(q)

StrategyOrder == <<"park", "administrative", "any">>

\* C13: search_trails_by_area_name queries the strategies in the order park,
\* administrative, any; a strategy is queried only after every one before it
\* missed (no element, or an exception); an exception of a strategy does not
\* end the call; and the call returns the formatted document of the first
\* strategy that yielded an element, with no query after it.
C13_StrategiesInOrderFirstHitWins ==
    AreaCall =>
        /\ Len(issued) <= Len(StrategyOrder)
        /\ \A i \in 1..Len(issued) :
              /\ issued[i].strategy = StrategyOrder[i]
              /\ i < Len(issued) => Missed(issued[i])
              /\ Contains(issued[i].query, "[\"leisure\"=\"park\"]") <=> i = 1
              /\ Contains(issued[i].query, "[\"boundary\"=\"administrative\"]") <=> i = 2
        /\ issued # <<>> /\ issued[Len(issued)].result.outcome = "pending" => spc = "await_backend"
        /\ spc = "returned" /\ issued # <<>> =>
              /\ output.outcome = "return"
              /\ Yielded(issued[Len(issued)]) =>
                    output.value = FormatTrailData(issued[Len(issued)].result.value).value
              /\ Missed(issued[Len(issued)]) => Len(issued) = Len(StrategyOrder)

C13_Witness ==
    /\ AreaCall
    /\ spc = "returned"
    /\ Len(issued) = 3
    /\ Raise(issued[1])
    /\ issued[2].result.outcome = "return" /\ Missed(issued[2])
    /\ Yielded(issued[3])

\* C14: when all three strategies missed, search_trails_by_area_name returns
\* the text format_trail_data gives for an empty element list.
C14_AllMissedGivesFormatterSentinel ==
    AreaCall /\ spc = "returned" /\ Len(issued) = 3 /\ (\A i \in 1..3 : Missed(issued[i])) =>
        /\ output.outcome = "return"
        /\ output.value = FormatTrailData(JsonObject([elements |-> <<>>])).value

TimedOut(q) == q.backend = [post |-> "raise", exc |-> "ReadTimeout"]

IsErrorReport(text) == text # <<>> /\ text[1] \in {"Error searching trails: ", "Error getting trail statistics: "}

EmptyResultTexts == {NoTrailsFound, NoTrailData, AllStrategiesMissed}

\* C15: a tool call all of whose backend queries timed out returns an error
\* report, not one of the texts that say nothing was found.
C15_TimeoutIsNotAnEmptyResult ==
    spc = "returned" /\ issued # <<>> /\ (\A i \in 1..Len(issued) : TimedOut(issued[i])) =>
        /\ output.outcome = "return"
        /\ IsErrorReport(output.value)
        /\ output.value \notin EmptyResultTexts

BoxInRange(south, west, north, east) ==
    /\ -90 <= south /\ south <= 90 /\ -90 <= north /\ north <= 90
    /\ -180 <= west /\ west <= 180 /\ -180 <= east /\ east <= 180

BoxValid(south, west, north, east) ==
    BoxInRange(south, west, north, east) /\ south < north /\ west < east

NoKnownCategory(trail_types) ==
    trail_types # None /\ \A i \in 1..Len(trail_types[1]) : trail_types[1][i] \notin {"hiking", "biking", "walking"}

\* C16: every tool call ends by returning text, whatever the arguments and
\* whatever the backend did; search_trails_by_coordinates with a box out of
\* range or inverted, or with no known category, returns an error text and
\* has sent nothing to the backend.
C16_ToolsAlwaysReturnText ==
    /\ spc = "returned" =>
          /\ output.outcome = "return"
          /\ output.value # <<>>
          /\ \A i \in 1..Len(output.value) : output.value[i] \in STRING
    /\ spc # "returned" => output.outcome = "none"
    /\ request.tool = "search_trails_by_coordinates"
       /\ (\/ ~BoxValid(request.south, request.west, request.north, request.east)
           \/ NoKnownCategory(request.trail_types)) =>
          /\ spc = "returned"
          /\ issued = <<>>
          /\ output.outcome = "return"
          /\ output.value[1] = "Error searching trails: "
          /\ Len(output.value) > 1

C16_Witness ==
    /\ spc = "returned"
    /\ request.tool = "search_trails_by_coordinates"
    /\ issued # <<>>
    /\ issued[1].backend = [post |-> "response", status |-> 200,
                            body |-> [text |-> "json", value |-> JsonArray]]

ParsedDocument(b) ==
    b.post = "response" /\ b.status = 200 /\ b.body.text = "json"

\* C19: query_overpass either returns the parsed body of a 2xx response, or
\* raises OverpassAPIError: for a status that is not 2xx, for a body that is
\* not JSON, and for every exception of the request.
C19_QueryOverpassTwoOutcomes ==
    \A i \in 1..Len(issued) :
        LET q == issued[i]
        IN /\ q.result.outcome = "pending" <=> q.backend.post = "pending"
           /\ q.result.outcome # "pending" =>
                 IF ParsedDocument(q.backend)
                 THEN q.result = [outcome |-> "return", value |-> q.backend.body.value]
                 ELSE /\ q.result.outcome = "raise"
                      /\ q.result.type = "OverpassAPIError"
                      /\ q.result.message # <<>>

C19_Witness ==
    /\ Len(issued) = 3
    /\ issued[1].backend = [post |-> "raise", exc |-> "RuntimeError"]
    /\ issued[2].backend = [post |-> "response", status |-> 200, body |-> [text |-> "html"]]
    /\ issued[3].backend.post = "response" /\ issued[3].backend.status = 504
    /\ issued[3].result.outcome = "raise"

\* The reason build_bbox_query gives, by the first check that fails.
FirstFailure(south, west, north, east) ==
    IF ~(-90 <= south /\ south <= 90 /\ -90 <= north /\ north <= 90)
    THEN "Latitude must be between -90 and 90 degrees"
    ELSE IF ~(-180 <= west /\ west <= 180 /\ -180 <= east /\ east <= 180)
    THEN "Longitude must be between -180 and 180 degrees"
    ELSE IF ~(south < north) THEN "South latitude must be less than north latitude"
    ELSE "West longitude must be less than east longitude"

\* A call in which build_bbox_query has been applied to a box: the
\* coordinates tool once the categories were accepted, and the statistics
\* tool in its coordinates mode.
BoxBuilt ==
    \/ request.tool = "search_trails_by_coordinates" /\ ~NoKnownCategory(request.trail_types)
    \/ /\ request.tool = "get_trail_statistics"
       /\ request.area_name \in {None, Some(<<>>)}
       /\ \A c \in {request.south, request.west, request.north, request.east} : c # None

BoxOf(r) ==
    IF r.tool = "get_trail_statistics" THEN <<r.south[1], r.west[1], r.north[1], r.east[1]>>
    ELSE <<r.south, r.west, r.north, r.east>>

\* C20: build_bbox_query returns a document exactly for the boxes that are in
\* range with south < north and west < east; for every other box it raises,
\* gives no document, and reports the first check that fails in the order
\* latitude range, longitude range, south < north, west < east.
C20_BboxValidation ==
    BoxBuilt =>
        LET box == BoxOf(request)
            built == BuildBboxQuery(box[1], box[2], box[3], box[4], None)
        IN /\ built.outcome = "return" <=> BoxValid(box[1], box[2], box[3], box[4])
           /\ built.outcome = "return" =>
                 /\ issued # <<>>
                 /\ Contains(issued[1].query, "out geom;")
                 /\ Contains(issued[1].query, ToString(box[1]))
           /\ built.outcome = "raise" =>
                 /\ DOMAIN built = {"outcome", "type", "message"}
                 /\ built.message = <<FirstFailure(box[1], box[2], box[3], box[4])>>
                 /\ issued = <<>>
                 /\ spc = "returned"
                 /\ output.outcome = "return"
                 /\ output.value[2] = FirstFailure(box[1], box[2], box[3], box[4])

C20_Witness ==
    /\ request.tool = "search_trails_by_coordinates"
    /\ request.trail_types = None
    /\ request.south = 91 /\ request.north = 90
    /\ request.west = 181 /\ request.east = 0
    /\ output.outcome = "return"
    /\ Contains(output.value, "Latitude must be between -90 and 90 degrees")

----------------------------------------------------------------------------
(* Properties of the functions called on their own (LibrarySpec) *)

\* The lines of a text whose lines are joined by newline tokens.
RECURSIVE Lines(_)
Lines(text) ==
    LET breaks == {i \in 1..Len(text) : text[i] = "\n"}
    IN IF breaks = {} THEN <<text>>
       ELSE LET first == CHOOSE i \in breaks : \A j \in breaks : i <= j
            IN <<SubSeq(text, 1, first - 1)>> \o Lines(SubSeq(text, first + 1, Len(text)))

Gave(name) == spc = "returned" /\ request.tool = name /\ output.outcome = "return"
Threw(name) == spc = "returned" /\ request.tool = name /\ output.outcome = "raise"

\* The category list a builder works on, and the known keys in it.
ListOf(trail_types) == IF trail_types = None THEN TrailTypeKeys ELSE trail_types[1]
NoRepetition(l) == \A i, j \in DOMAIN l : i # j => l[i] # l[j]
KnownIn(l) == {l[i] : i \in DOMAIN l} \cap DOMAIN TRAIL_TYPES

\* The filter clauses a category stands for in a box query: a relation clause
\* per route value, a way clause with the two access exclusions per highway
\* value, each closed by the box.
RelationClause(route, box) == <<"  relation[\"route\"=\"", route, "\"]">> \o box
WayClause(highway, box) ==
    <<"  way[\"highway\"=\"", highway, "\"]",
      "[\"access\"!=\"", "private", "\"]", "[\"access\"!=\"", "no", "\"]">> \o box
ClausesOf(c, box) ==
    {RelationClause(TRAIL_TYPES[c].route[k], box) : k \in DOMAIN TRAIL_TYPES[c].route}
    \cup {WayClause(TRAIL_TYPES[c].highway[k], box) : k \in DOMAIN TRAIL_TYPES[c].highway}

\* C21: the document build_bbox_query returns for a valid box and a set of
\* categories is the header, the opening of the union, one line per pair of a
\* requested category and one of its route or highway values (a line that two
\* categories share occurs once for each), the closing of the union and the
\* output statement; no other line is in it.
C21_OneClausePerTagMapping ==
    (Gave("build_bbox_query") /\ NoRepetition(ListOf(request.trail_types))) =>
        LET lines == Lines(output.value)
            body == SubSeq(lines, 3, Len(lines) - 2)
            box == BoxText(request.south, request.west, request.north, request.east)
            known == KnownIn(ListOf(request.trail_types))
        IN /\ Len(lines) >= 4
           /\ lines[1] = QueryHeader
           /\ lines[2] = <<"(">>
           /\ lines[Len(lines) - 1] = <<");">>
           /\ lines[Len(lines)] = <<"out geom;">>
           /\ \A i \in DOMAIN body : \E c \in known : body[i] \in ClausesOf(c, box)
           /\ \A c \in known : \A clause \in ClausesOf(c, box) :
                 Cardinality({i \in DOMAIN body : body[i] = clause})
                 = Cardinality({d \in known : clause \in ClausesOf(d, box)})

\* Hiking and walking share route and highway values: their shared clauses
\* are in the document twice.
C21_Witness ==
    /\ Gave("build_bbox_query")
    /\ request.trail_types = Some(<<"walking", "hiking">>)
    /\ LET lines == Lines(output.value)
       IN /\ Len(lines) = 4 + 6 + 7
          /\ Cardinality({i \in DOMAIN lines :
                            lines[i] = RelationClause("foot", BoxText(0, -180, 90, 0))}) = 2

\* The keys of a list in the order TRAIL_TYPES declares them.
DeclarationOrder(l) == SelectSeq(TrailTypeKeys, LAMBDA t : \E i \in DOMAIN l : l[i] = t)

\* C22: the document build_bbox_query returns has the clauses of the requested
\* categories in the order of declaration (hiking, biking, walking): it is
\* the document of the same box and the same categories listed in that order,
\* however the caller ordered them.
C22_BboxQueryOrderStable ==
    (Gave("build_bbox_query") /\ NoRepetition(ListOf(request.trail_types))) =>
        output = BuildBboxQuery(request.south, request.west, request.north, request.east,
                                Some(DeclarationOrder(ListOf(request.trail_types))))

\* C23: a call of build_bbox_query or build_area_query with a category list
\* that holds a key outside TRAIL_TYPES raises; it returns no document.
C23_UnknownKeyFailsLoudly ==
    (/\ spc = "returned"
     /\ request.tool \in {"build_bbox_query", "build_area_query"}
     /\ \E i \in DOMAIN ListOf(request.trail_types) :
           ListOf(request.trail_types)[i] \notin DOMAIN TRAIL_TYPES)
    => output.outcome = "raise"

\* C24: validate_trail_types(None) returns all the keys of TRAIL_TYPES; for a
\* list it returns the known keys of the list, each as often as the list
\* names it and no other key, and raises ValueError when the list has no known
\* key, as the empty list and a list of unknown keys do; ["hiking", "bogus"]
\* gives ["hiking"].
C24_ValidateTrailTypes ==
    /\ (spc = "returned" /\ request.tool = "validate_trail_types") =>
          IF request.trail_types = None
          THEN /\ output.outcome = "return"
               /\ {output.value[i] : i \in DOMAIN output.value} = DOMAIN TRAIL_TYPES
               /\ Len(output.value) = Cardinality(DOMAIN TRAIL_TYPES)
          ELSE LET given == request.trail_types[1]
               IN IF KnownIn(given) = {}
                  THEN output.outcome = "raise" /\ output.type = "ValueError"
                  ELSE /\ output.outcome = "return"
                       /\ \A k \in CategoryKeys :
                             Cardinality({i \in DOMAIN output.value : output.value[i] = k})
                             = IF k \in DOMAIN TRAIL_TYPES
                               THEN Cardinality({i \in DOMAIN given : given[i] = k})
                               ELSE 0
    /\ ValidateTrailTypes(Some(<<>>)).outcome = "raise"
    /\ ValidateTrailTypes(Some(<<"bogus">>)).outcome = "raise"
    /\ ValidateTrailTypes(Some(<<"hiking", "bogus">>)) = Ok(<<"hiking">>)

C24_Witness ==
    /\ spc = "returned"
    /\ request.tool = "validate_trail_types"
    /\ request.trail_types = Some(<<"bogus", "walking", "hiking">>)
    /\ output = Ok(<<"walking", "hiking">>)

\* C25: validate_trail_types returns all the keys of TRAIL_TYPES when it is
\* given no list (None) and when it is given the empty list.
C25_EmptyOrAbsentGivesAllKeys ==
    (/\ spc = "returned"
     /\ request.tool = "validate_trail_types"
     /\ request.trail_types \in {None, Some(<<>>)})
    => /\ output.outcome = "return"
       /\ {output.value[i] : i \in DOMAIN output.value} = DOMAIN TRAIL_TYPES

\* C25 as the code has it: validate_trail_types returns all the keys of
\* TRAIL_TYPES, in their order of declaration, when it is given no list; given
\* the empty list it raises the ValueError of a list without a known key; and
\* it returns all the keys for a list only if the list names them all.
C25_OnlyAbsentGivesAllKeys ==
    (spc = "returned" /\ request.tool = "validate_trail_types") =>
        /\ request.trail_types = None => output = Ok(<<"hiking", "biking", "walking">>)
        /\ request.trail_types = Some(<<>>) =>
              /\ output.outcome = "raise"
              /\ output.type = "ValueError"
              /\ output.message = <<"No valid trail types specified. Use: hiking, biking, or walking">>
        /\ (/\ request.trail_types # None
            /\ output.outcome = "return"
            /\ {output.value[i] : i \in DOMAIN output.value} = DOMAIN TRAIL_TYPES)
           => KnownIn(request.trail_types[1]) = DOMAIN TRAIL_TYPES

C25_Witness ==
    /\ spc = "returned"
    /\ request = [tool |-> "validate_trail_types", trail_types |-> Some(<<>>)]
    /\ output.outcome = "raise"

\* A name with nothing in it but blanks, and a name without the blanks around it.
Blank(name) == \A i \in DOMAIN name : name[i] \in {" ", "\t", "\n"}
Trimmed(name) ==
    LET inked == {i \in DOMAIN name : name[i] \notin {" ", "\t", "\n"}}
    IN SubSeq(name, CHOOSE i \in inked : \A j \in inked : i <= j,
                    CHOOSE i \in inked : \A j \in inked : j <= i)

\* The characters of s at the positions of keep, in their order.
Pick(s, keep) ==
    [k \in 1..Cardinality(keep) |->
        s[CHOOSE i \in keep : Cardinality({j \in keep : j <= i}) = k]]

\* A string in which every quote character is escaped, and the string it
\* stands for.
QuotesEscaped(s) == \A i \in DOMAIN s : s[i] = "\"" => (i > 1 /\ s[i - 1] = "\\")
Unescaped(s) == Pick(s, {i \in DOMAIN s : ~(s[i] = "\\" /\ i < Len(s) /\ s[i + 1] = "\"")})

\* The name an area line matches by: what is between its opening and the
\* next closing of a tag filter.
MatchedName(text) ==
    LET open == CHOOSE i \in DOMAIN text : text[i] = "area[\"name\"=\""
        close == CHOOSE i \in DOMAIN text :
                    /\ i > open /\ text[i] = "\"]"
                    /\ \A j \in (open + 1)..(i - 1) : text[j] # "\"]"
    IN SubSeq(text, open + 1, close - 1)

\* C26: build_area_query raises exactly when the area name is empty or all
\* blanks; otherwise its document has one area line, that of the park
\* strategy, and the name matched there is the area name without the blanks
\* around it and with a backslash before each of its quote characters.
C26_AreaQueryNameAndStrategy ==
    (spc = "returned" /\ request.tool = "build_area_query") =>
        /\ output.outcome = "raise" <=> Blank(request.area_name)
        /\ output.outcome = "raise" => output.type = "ValueError"
        /\ output.outcome = "return" =>
              /\ Cardinality({i \in DOMAIN output.value : output.value[i] = "area[\"name\"=\""}) = 1
              /\ Cardinality({i \in DOMAIN output.value : output.value[i] = "->.searchArea;"}) = 1
              /\ Contains(output.value, "[\"leisure\"=\"park\"]")
              /\ ~Contains(output.value, "[\"boundary\"=\"administrative\"]")
              /\ QuotesEscaped(MatchedName(output.value))
              /\ Unescaped(MatchedName(output.value)) = Trimmed(request.area_name)

C26_Witness ==
    /\ Gave("build_area_query")
    /\ request.area_name = <<" ", "P", "\"", "k", " ">>
    /\ MatchedName(output.value) = <<"P", "\\", "\"", "k">>

\* The value of a tag, "" when the element does not have the tag.
Tag(tags, key) == IF key \in DOMAIN tags THEN tags[key] ELSE ""

\* The decision order of the classification, as a table: the category of a
\* route value; failing that, the category the highway and access tags give.
ByRoute(route) ==
    CASE route \in {"hiking", "foot"} -> Some("hiking")
      [] route \in {"bicycle", "mtb"} -> Some("biking")
      [] route = "walking" -> Some("walking")
      [] OTHER -> None
ByHighway(highway, bicycle, foot) ==
    CASE highway = "cycleway" \/ bicycle = "yes" -> Some("biking")
      [] ~(highway = "cycleway" \/ bicycle = "yes")
         /\ (highway \in {"footway", "pedestrian"} \/ foot = "yes") -> Some("hiking")
      [] ~(highway = "cycleway" \/ bicycle = "yes")
         /\ ~(highway \in {"footway", "pedestrian"} \/ foot = "yes")
         /\ highway \in {"path", "track"} -> Some("hiking")
      [] OTHER -> None

\* C27: identify_trail_type decides by the route tag when its value is a
\* known route value, whatever the highway, bicycle and foot tags are;
\* otherwise cycleway or bicycle=yes gives biking, else footway, pedestrian or
\* foot=yes gives hiking, else path or track gives hiking (biking would need
\* bicycle=yes, which has decided before); otherwise it gives None. The five
\* examples of the specification come out as stated.
C27_ClassificationOrder ==
    /\ (spc = "returned" /\ request.tool = "identify_trail_type") =>
          LET tags == request.tags
              route == Tag(tags, "route")
          IN /\ output.outcome = "return"
             /\ ByRoute(route) # None =>
                   /\ output.value = ByRoute(route)
                   /\ output.value = IdentifyTrailType([route |-> route])
                   /\ route \in {TRAIL_TYPES[output.value[1]].route[k] :
                                    k \in DOMAIN TRAIL_TYPES[output.value[1]].route}
             /\ ByRoute(route) = None =>
                   output.value = ByHighway(Tag(tags, "highway"), Tag(tags, "bicycle"),
                                            Tag(tags, "foot"))
    /\ IdentifyTrailType([route |-> "bicycle"]) = Some("biking")
    /\ IdentifyTrailType([highway |-> "footway", foot |-> "yes"]) = Some("hiking")
    /\ IdentifyTrailType([highway |-> "path", bicycle |-> "yes"]) = Some("biking")
    /\ IdentifyTrailType([highway |-> "path"]) = Some("hiking")
    /\ IdentifyTrailType(<<>>) = None

\* A route relation for bicycles on a footway open to walkers: the route
\* decides.
C27_Witness ==
    /\ spc = "returned"
    /\ request.tool = "identify_trail_type"
    /\ request.tags = [route |-> "mtb", highway |-> "footway", foot |-> "yes", bicycle |-> "no"]
    /\ output = Ok(Some("biking"))

\* The element list format_trail_data was given, and the number of its
\* elements that classify: the detail lines there are to show.
GivenElements == IF "elements" \in DOMAIN request.data.members THEN request.data.members.elements ELSE <<>>
DetailLines ==
    Cardinality({i \in DOMAIN GivenElements :
                    "tags" \in DOMAIN GivenElements[i]
                    /\ IdentifyTrailType(GivenElements[i].tags) # None})

\* The detail lines a summary shows (each opens its bracket once) and the
\* places of a truncation notice in it.
ShownLines(text) == Cardinality({i \in DOMAIN text : text[i] = " ("})
Notices(text) == {i \in DOMAIN text : text[i] = "\n... and "}

\* C28: format_trail_data returns "No trails found in the specified area."
\* exactly when the document has no elements member or an empty one;
\* otherwise it shows the first max_trails_display detail lines at most, and
\* if there are d > max_trails_display of them the text ends with the notice
\* "... and d - max_trails_display more trails", while for d <=
\* max_trails_display all d are shown and there is no notice.
C28_SentinelAndTruncation ==
    (spc = "returned" /\ request.tool = "format_trail_data") =>
        /\ output.outcome = "return"
        /\ output.value = <<"No trails found in the specified area.">> <=> GivenElements = <<>>
        /\ GivenElements # <<>> =>
              LET text == output.value
                  d == DetailLines
              IN /\ ShownLines(text) <= max_trails_display
                 /\ d <= max_trails_display =>
                       /\ ShownLines(text) = d
                       /\ Notices(text) = {}
                 /\ d > max_trails_display =>
                       /\ ShownLines(text) = max_trails_display
                       /\ Notices(text) = {Len(text) - 2}
                       /\ text[Len(text) - 1] = ToString(d - max_trails_display)
                       /\ text[Len(text)] = " more trails"
                       /\ \E i \in DOMAIN text :
                             text[i] = GivenElements[max_trails_display].tags.name
                       /\ ~\E i \in DOMAIN text :
                             text[i] = GivenElements[max_trails_display + 1].tags.name

\* Fifty-three paths and two nodes: fifty lines and a notice of three more.
C28_Witness ==
    /\ spc = "returned"
    /\ request.tool = "format_trail_data"
    /\ Len(GivenElements) = max_trails_display + 5
    /\ DetailLines = max_trails_display + 3
    /\ SubSeq(output.value, Len(output.value) - 2, Len(output.value))
       = <<"\n... and ", "3", " more trails">>

----------------------------------------------------------------------------
(* Properties of the statistics report (ServerSpec) *)

\* A statistics call that got a document with elements from the backend, and
\* the elements.
StatisticsGiven ==
    /\ spc = "returned"
    /\ request.tool = "get_trail_statistics"
    /\ issued # <<>>
    /\ issued[1].result.outcome = "return"
    /\ issued[1].result.value.kind = "object"
    /\ "elements" \in DOMAIN issued[1].result.value.members
    /\ issued[1].result.value.members.elements # <<>>
SurveyedElements == issued[1].result.value.members.elements

\* The value an element has for a tag of the histograms.
Bucket(element, key) ==
    IF "tags" \in DOMAIN element /\ key \in DOMAIN element.tags THEN element.tags[key] ELSE "unknown"
Buckets(key) == [i \in DOMAIN SurveyedElements |-> Bucket(SurveyedElements[i], key)]
Occurrences(values, v) == Cardinality({i \in DOMAIN values : values[i] = v})
FirstAt(values, v) == CHOOSE i \in DOMAIN values : values[i] = v /\ \A j \in 1..(i - 1) : values[j] # v

\* The entries "- name: count" of the report between two of its headings.
At(text, heading) == CHOOSE i \in DOMAIN text : text[i] = heading
Entries(text, from, to) ==
    [k \in 1..((to - from - 1) \div 5) |->
        [name |-> text[from + 5 * (k - 1) + 2], count |-> text[from + 5 * (k - 1) + 4]]]
SurfaceEntries(text) ==
    Entries(text, At(text, "\nBy Surface:\n"), At(text, "\nBy Difficulty:\n"))
DifficultyEntries(text) == Entries(text, At(text, "\nBy Difficulty:\n"), Len(text) + 1)

\* Entries that are buckets of the data with their counts, no bucket twice,
\* the more frequent first.
Histogram(entries, values) ==
    /\ \A k \in DOMAIN entries :
          /\ Occurrences(values, entries[k].name) > 0
          /\ entries[k].count = ToString(Occurrences(values, entries[k].name))
    /\ \A k, l \in DOMAIN entries :
          k < l => /\ entries[k].name # entries[l].name
                   /\ Occurrences(values, entries[k].name) >= Occurrences(values, entries[l].name)

\* C29: in the report of get_trail_statistics the surfaces listed are at most
\* 10 buckets of the data, the most frequent ones, in the order of falling
\* count and, among equal counts, of first appearance in the elements; the
\* difficulties listed are all the difficulty buckets but "unknown", in the
\* order of falling count.
C29_HistogramOrder ==
    StatisticsGiven =>
        /\ output.outcome = "return"
        /\ LET surfaces == Buckets("surface")
               listed == SurfaceEntries(output.value)
               names == {listed[k].name : k \in DOMAIN listed}
               rest == {surfaces[i] : i \in DOMAIN surfaces} \ names
           IN /\ Len(listed) <= 10
              /\ rest # {} => Len(listed) = 10
              /\ Histogram(listed, surfaces)
              /\ \A k, l \in DOMAIN listed :
                    (k < l /\ listed[k].count = listed[l].count)
                    => FirstAt(surfaces, listed[k].name) < FirstAt(surfaces, listed[l].name)
              /\ \A v \in rest : \A k \in DOMAIN listed :
                    \/ Occurrences(surfaces, v) < Occurrences(surfaces, listed[k].name)
                    \/ /\ Occurrences(surfaces, v) = Occurrences(surfaces, listed[k].name)
                       /\ FirstAt(surfaces, listed[k].name) < FirstAt(surfaces, v)
        /\ LET difficulties == Buckets("difficulty")
               listed == DifficultyEntries(output.value)
           IN /\ Histogram(listed, difficulties)
              /\ {listed[k].name : k \in DOMAIN listed}
                 = {difficulties[i] : i \in DOMAIN difficulties} \ {"unknown"}

\* Thirteen surfaces: ten are listed, gravel before dirt (both twice, gravel
\* seen first), and hard before easy though easy was seen first.
C29_Witness ==
    /\ StatisticsGiven
    /\ SurveyedElements = WideSurvey
    /\ [k \in 1..10 |-> SurfaceEntries(output.value)[k].name]
       = <<"asphalt", "gravel", "dirt", "unknown", "sand", "grass", "rock", "wood", "clay", "mud">>
    /\ DifficultyEntries(output.value)
       = << [name |-> "hard", count |-> "3"], [name |-> "easy", count |-> "2"],
            [name |-> "medium", count |-> "1"] >>

----------------------------------------------------------------------------
(* Properties of the rounds of process_query (Spec) *)

InRound == pc \in {"call_tool", "await_tool"}

\* C30: process_query counts no rounds. A query every round of which had a
\* tool request has not reached Done, however many rounds it has completed,
\* and the last invocation of a round always leads back to the engine call,
\* with the number of rounds completed playing no part.
C30_NoRoundCap ==
    /\ []((engineLog # <<>> /\ ToolRounds = 1..Len(engineLog)) => pc # "done")
    /\ [][(InRound /\ ~InRound') =>
             /\ pc' = "call_model"
             /\ engineLog' = engineLog
             /\ ToolRounds = 1..Len(engineLog)]_vars

\* As many rounds with tool requests completed as the model explores, and the
\* loop is at the engine call again.
C30_Witness ==
    /\ pc = "call_model"
    /\ Len(engineLog) = MaxRounds
    /\ \A r \in 1..MaxRounds : Requested(engineLog[r]) # <<>>
    /\ idx = Len(tool_calls) + 1

----------------------------------------------------------------------------
(* Properties of the area name in the tools (ServerSpec) *)

\* C37: a tool called with an area name that is empty or all blanks sends
\* nothing to the backend: search_trails_by_area_name, and get_trail_statistics
\* when it is not given four coordinates to go by, end with no query issued
\* and return a text.
C37_NoQueryForBlankAreaName ==
    (\/ /\ request.tool = "search_trails_by_area_name"
        /\ Blank(request.area_name)
     \/ /\ request.tool = "get_trail_statistics"
        /\ request.area_name # None
        /\ Blank(request.area_name[1])
        /\ \E coord \in {request.south, request.west, request.north, request.east} : coord = None)
    => /\ issued = <<>>
       /\ spc = "returned"
       /\ output.outcome = "return"

\* The number of backslashes that stand right before position i of s.
RECURSIVE BackslashesBefore(_, _)
BackslashesBefore(s, i) ==
    IF i > 1 /\ s[i - 1] = "\\" THEN 1 + BackslashesBefore(s, i - 1) ELSE 0

\* C38: in the document of build_area_query every quote character that comes
\* from the area name has an odd number of backslashes before it, so that the
\* string literal of the name ends at the quote the builder wrote and nowhere
\* before.
C38_AreaNameStaysInLiteral ==
    Gave("build_area_query") =>
        LET s == MatchedName(output.value)
        IN \A i \in DOMAIN s : s[i] = "\"" => BackslashesBefore(s, i) % 2 = 1

\* The values the category table has for a tag.
Configured(key) ==
    UNION {{TRAIL_TYPES[c][key][k] : k \in DOMAIN TRAIL_TYPES[c][key]} : c \in DOMAIN TRAIL_TYPES}

\* C39: an element that carries nothing but a route tag or nothing but a
\* highway tag, with a value the category table has for that tag (a value the
\* queries ask for), is classified: identify_trail_type does not return None
\* for it.
C39_ClassifierCoversBuilder ==
    (/\ spc = "returned"
     /\ request.tool = "identify_trail_type"
     /\ \E key \in {"route", "highway"} :
           /\ DOMAIN request.tags = {key}
           /\ request.tags[key] \in Configured(key))
    => output.value # None

----------------------------------------------------------------------------
(* Properties of the client's statistics call (ServerSpec) *)

\* C40: when the client's get_trail_statistics has sent a location L and no
\* coordinates, the server's tool function runs with L as its area name: the
\* call is not refused for its arguments, and the tool does not answer that
\* neither an area name nor four coordinates were given.
C40_LocationReachesAreaName ==
    (/\ "sent" \in DOMAIN request
     /\ DOMAIN request.sent = {"location"})
    => /\ request.tool = "get_trail_statistics"
       /\ request.area_name = request.sent.location
       /\ spc = "returned" =>
             /\ output.value[1] # "Please provide either an area name or all four coordinates (south, west, north, east)"
             /\ output.value[1] # "Error executing tool get_trail_statistics: "

----------------------------------------------------------------------------
(* Properties of the conversation history of one process_query (Spec) *)

\* C31: during one process_query the history only grows at its end, and what
\* is there is never changed; every engine call is given the whole history,
\* and from the second round on what the engine was given the round before is
\* a proper prefix of it; the turn a round appends first is the assistant turn
\* holding the response as the engine emitted it, and every tool-result turn
\* of the round comes after it and answers a request of that response.
C31_HistoryAppendOnly ==
    [][(pc # "idle" /\ pc' # "idle")
       => /\ IsPrefix(conversation_history, conversation_history')
          /\ Len(conversation_history') <= Len(conversation_history) + 1
          /\ engineCalls' = engineCalls + 1
                => /\ sentHistory' = conversation_history
                   /\ engineCalls > 0
                         => /\ IsPrefix(sentHistory, sentHistory')
                            /\ Len(sentHistory) < Len(sentHistory')
          /\ engineLog' # engineLog
                => conversation_history' =
                      Append(conversation_history,
                             [role |-> "assistant",
                              content |-> [blocks |-> engineLog'[Len(engineLog')]]])
          /\ (engineLog' = engineLog /\ conversation_history' # conversation_history)
                => /\ pc = "await_tool"
                   /\ Len(conversation_history') > Len(sentHistory) + 1
                   /\ conversation_history'[Len(sentHistory) + 1].role = "assistant"
                   /\ conversation_history'[Len(sentHistory) + 1].content.blocks
                         = engineLog[Len(engineLog)]
                   /\ \E i \in 1..Len(Requested(engineLog[Len(engineLog)])) :
                         IsToolResultFor(conversation_history'[Len(conversation_history')],
                                         Requested(engineLog[Len(engineLog)])[i].id)]_vars

\* The engine is called for the second round of a query after a tool-result
\* turn was appended in the first: it is given the seed, the assistant turn
\* and the tool-result turn.
C31_Witness ==
    /\ engineCalls = 2
    /\ Len(sentHistory) >= 3
    /\ sentHistory[1].role = "user"
    /\ sentHistory[2].role = "assistant"
    /\ sentHistory[3].role = "user"
    /\ "blocks" \in DOMAIN sentHistory[3].content
    /\ sentHistory[3].content.blocks[1].type = "tool_result"

----------------------------------------------------------------------------
(* Properties of the manifest of a connected object (Spec) *)

\* The operations that only read the manifest and the connected flag.
ReadingOps ==
    {"process_query", "get_tool_descriptions", "get_resource_descriptions",
     "get_prompt_descriptions", "get_server_info", "get_resource_data", "get_prompt_data"}

\* The manifest of an object and its connected flag.
ManifestOf(obj) ==
    <<obj.available_tools, obj.available_resources, obj.available_prompts, obj.is_connected>>

\* The tool manifest connect builds from the server's listing.
LoadedTools ==
    [i \in 1..Len(ServerTools) |->
        [name |-> ServerTools[i].name, description |-> ServerTools[i].description,
         input_schema |-> ServerTools[i].inputSchema]]

\* C32: a step of process_query (its entry, every round, its end), a describe
\* operation, get_resource_data and get_prompt_data leave the three manifests
\* and the connected flag of every object as they were; an existing object's
\* manifests never change at all, and its flag changes only in cleanup; and
\* every engine call is given the tool manifest connect loaded from the
\* server's listing, the same in every round.
C32_ManifestWriteOnce ==
    [][/\ (pc # "idle" \/ lastOp'.op \in ReadingOps)
            => /\ DOMAIN objs' = DOMAIN objs
               /\ \A c \in DOMAIN objs : ManifestOf(objs'[c]) = ManifestOf(objs[c])
       /\ \A c \in DOMAIN objs \cap DOMAIN objs' :
            /\ objs'[c].available_tools = objs[c].available_tools
            /\ objs'[c].available_resources = objs[c].available_resources
            /\ objs'[c].available_prompts = objs[c].available_prompts
            /\ objs'[c].is_connected # objs[c].is_connected => lastOp'.op = "cleanup"
       /\ engineCalls' = engineCalls + 1
            => /\ sentTools' = LoadedTools
               /\ sentTools' = objs'[self].available_tools
               /\ engineCalls > 0 => sentTools' = sentTools]_vars

\* After a describe operation on a connected object a query is in its second
\* round, and the engine has just been given the loaded manifest.
C32_Witness ==
    /\ engineCalls = 2
    /\ sentTools = LoadedTools
    /\ objs[self].is_connected
    /\ objs[self].available_tools = LoadedTools

----------------------------------------------------------------------------
(* Properties of the lone client (ClientSpec) *)

\* The requests of TrailMcpClient that need a session.
SessionOps == {"list_tools", "call_tool", "read_resource", "get_prompt"}

\* C36: a request made right after disconnect() has returned fails with the
\* client's not-connected error: it gives neither the manifest kept from the
\* connection nor what the closed session makes of the request.
C36_DisconnectedClientRefuses ==
    [][(/\ lastOp.op = "disconnect"
        /\ lastOp.outcome = "return"
        /\ lastOp'.op \in SessionOps)
       => /\ lastOp'.outcome = "raise"
          /\ lastOp'.error = "Not connected to server"]_vars

----------------------------------------------------------------------------
(* Properties of the chat application (ChatSpec) *)

\* The objects whose client holds a session that no aclose() has released.
OpenSessions == {c \in DOMAIN objs : objs[c].mcp_client.session /\ c \notin cli.closed}

\* C33: once a quit command, an interrupt or a fatal error has taken main()
\* out of the loop, no call of the connector is running or started, and when
\* main() has ended, by whichever path, no object is left with an open
\* session.
C33_EveryExitDisconnects ==
    /\ cli.at \in {"finally", "exited"} => pc = "idle"
    /\ cli.at = "exited" => OpenSessions = {}

----------------------------------------------------------------------------
(* Properties of overlapping callers (TaskSpec) *)

\* C34: with callers of get_connector that overlap, connect() is awaited at
\* most once for the object in the slot, and no caller is handed an object
\* whose connect() is still being awaited by another caller.
C34_NoHandoutBeforeConnected ==
    /\ connects <= 1
    /\ \A t \in Tasks : tasks[t].at = "holding" => ~tasks[t].got.connecting

\* The turn a logged event adds to the history.
TurnOf(e) ==
    IF e.ev = "engine"
    THEN [role |-> "assistant", content |-> [blocks |-> e.response]]
    ELSE [role |-> "user",
          content |-> [blocks |-> <<[type |-> "tool_result", tool_use_id |-> e.id,
                                     content |-> ExtractToolText(e.content)]>>]]

\* The history of caller t after the first n events logged for it: its seed,
\* then one turn for each response and each returned tool call, in order.
OwnHistory(t, n) ==
    LET made == SelectSeq(SubSeq(taskLog[t], 1, n), LAMBDA e : e.ev \in {"engine", "tool"})
    IN <<SeedTurn(objs[tasks[t].inst], TaskQuery[t])>> \o [i \in 1..Len(made) |-> TurnOf(made[i])]

\* The responses the engine has given to caller t.
ResponsesTo(t) == SelectSeq(taskLog[t], LAMBDA e : e.ev = "engine")

\* C35: while two calls of process_query overlap, every history the engine
\* is sent for a caller is that caller's seed turn followed by the turns made
\* for that caller and nothing else, and the text a call returns is the text
\* of its own last response.
C35_CallersShareNoConversation ==
    \A t \in Tasks :
        /\ \A k \in 1..Len(taskLog[t]) :
              taskLog[t][k].ev \in {"engine", "engine_raised"}
                 => taskLog[t][k].sent = OwnHistory(t, k - 1)
        /\ tasks[t].at \in {"call_model", "await_tool"}
              => tasks[t].conversation_history = OwnHistory(t, Len(taskLog[t]))
        /\ (tasks[t].at = "finished" /\ tasks[t].result.outcome = "return")
              => tasks[t].result.value =
                    JoinWith(<<"\n">>,
                        LET last == ResponsesTo(t)[Len(ResponsesTo(t))].response
                            texts == SelectSeq(last, LAMBDA c : c.type = "text")
                        IN [i \in 1..Len(texts) |-> texts[i].text])

\* Both callers are in their second round at once, each awaiting a tool
\* call, after each has had a tool result in its first round.
C35_Witness ==
    \A t \in Tasks :
        /\ tasks[t].at = "await_tool"
        /\ tasks[t].rounds = 2
        /\ \E k \in 1..Len(taskLog[t]) : taskLog[t][k].ev = "tool"

====
